---------------------------- MODULE Spec2Model ----------------------------
(***************************************************************************)
(* Inkrypt deployment helper, deploy/cf-api.mjs: the control-plane client  *)
(* cf and the three reconcilers built on it (resolveZone, ensureDnsA,      *)
(* ensureWorkerRoutes), run against a model of the remote control plane.   *)
(*                                                                         *)
(* A JavaScript string the code inspects character by character is a       *)
(* sequence of one-character strings; a string it only compares with ===   *)
(* is a TLA+ string.  A JSON value is a record with a kind field.          *)
(***************************************************************************)
EXTENDS Integers, Sequences, FiniteSets, TLC

VARIABLES
    cfReq,       \* cf: the request of the last call
    cfResp,      \* cf: the HTTP response fetch gave it
    cfOut,       \* cf: what the call did (returned a value or threw)
    dnsRecords,  \* remote: the zone's DNS records
    dnsNextId,   \* remote: the id the next created DNS record gets
    dnsCall,     \* ensureDnsA: the invocation of each caller
    routes,      \* remote: the zone's worker routes
    rtNextId,    \* remote: the id the next created route gets
    rtCall,      \* ensureWorkerRoutes: the invocation in flight
    zones,       \* remote: the account's zones
    zCall,       \* resolveZone: the invocation in flight
    cli,         \* main: the run of the command
    norm,        \* configuration resolver: normalizeDomain applied
    built        \* configuration resolver: buildName applied

cfVars    == <<cfReq, cfResp, cfOut>>
dnsVars   == <<dnsRecords, dnsNextId, dnsCall>>
routeVars == <<routes, rtNextId, rtCall>>
zoneVars  == <<zones, zCall>>
toolVars  == <<cli, norm, built>>
vars      == <<cfReq, cfResp, cfOut, dnsRecords, dnsNextId, dnsCall,
               routes, rtNextId, rtCall, zones, zCall, cli, norm, built>>

(***************************************************************************)
(* Strings                                                                 *)
(***************************************************************************)

\* String.prototype.toLowerCase, one character
LowerChar(c) ==
    CASE c = "A" -> "a"
      [] c = "B" -> "b"
      [] c = "C" -> "c"
      [] c = "X" -> "x"
      [] c = "Y" -> "y"
      [] c = "H" -> "h"
      [] c = "T" -> "t"
      [] c = "P" -> "p"
      [] c = "S" -> "s"
      [] OTHER -> c

\* String.prototype.toLowerCase
ToLowerCase(s) == [i \in DOMAIN s |-> LowerChar(s[i])]

\* Array.prototype.join('.') of a list of labels
RECURSIVE JoinDot(_)
JoinDot(labels) ==
    IF Len(labels) = 0 THEN <<>>
    ELSE IF Len(labels) = 1 THEN labels[1]
    ELSE labels[1] \o <<".">> \o JoinDot(Tail(labels))

\* The position of the first character of s that is in cs; 0 when none is
FirstOf(s, cs) ==
    IF \E i \in DOMAIN s : s[i] \in cs
    THEN CHOOSE i \in DOMAIN s : s[i] \in cs /\ \A j \in 1..(i - 1) : s[j] \notin cs
    ELSE 0

\* String.prototype.split(c): a string without c is one piece, and every c
\* starts a new (possibly empty) piece
RECURSIVE Split(_, _)
Split(s, c) ==
    IF FirstOf(s, {c}) = 0 THEN <<s>>
    ELSE <<SubSeq(s, 1, FirstOf(s, {c}) - 1)>>
         \o Split(SubSeq(s, FirstOf(s, {c}) + 1, Len(s)), c)

\* normalized.split('.')
SplitDot(s) == Split(s, ".")

\* String.prototype.includes for a one-character needle
Includes(s, c) == \E i \in DOMAIN s : s[i] = c

\* String.prototype.includes('://')
IncludesScheme(s) ==
    \E i \in 1..(Len(s) - 2) : s[i] = ":" /\ s[i + 1] = "/" /\ s[i + 2] = "/"

\* String.prototype.trim (the only white space of the alphabet is " ")
RECURSIVE Trim(_)
Trim(s) ==
    IF Len(s) = 0 THEN s
    ELSE IF s[1] = " " THEN Trim(Tail(s))
    ELSE IF s[Len(s)] = " " THEN Trim(SubSeq(s, 1, Len(s) - 1))
    ELSE s

\* String.prototype.replace(/\.+$/, '')
RECURSIVE StripTrailingDots(_)
StripTrailingDots(s) ==
    IF Len(s) > 0 /\ s[Len(s)] = "." THEN StripTrailingDots(SubSeq(s, 1, Len(s) - 1))
    ELSE s

(***************************************************************************)
(* JSON values and HTTP responses                                          *)
(***************************************************************************)

Undefined == [kind |-> "undefined"]
JsonNull  == [kind |-> "null"]
JsonArray(items) == [kind |-> "array", items |-> items]

\* The control plane's envelope {success, result, errors}; success is
\* "true", "false" or "absent"
Envelope(success, result) ==
    [kind |-> "object", success |-> success, result |-> result]

\* Response.ok
RespOk(resp) == resp.status >= 200 /\ resp.status <= 299

\* An HTTP body is empty, text that JSON.parse rejects, or the text of a
\* JSON value
EmptyBody == [text |-> "empty"]
GarbageBody == [text |-> "garbage"]
JsonBody(data) == [text |-> "json", data |-> data]

\* JSON.parse throws a SyntaxError on the empty text and on garbage
JsonParseThrows(body) == body.text # "json"

\* data?.success !== true
SuccessNotTrue(data) == ~(data.kind = "object" /\ data.success = "true")

\* data?.success === false
SuccessIsFalse(data) == data.kind = "object" /\ data.success = "false"

\* data?.result
ResultOf(data) == IF data.kind = "object" THEN data.result ELSE Undefined

\* A query parameter's value: String(v)
Param(v) == [kind |-> "string", s |-> v]

\* url: the base, the path and the query parameters that are not undefined
CfUrl(req) ==
    [base |-> "https://api.cloudflare.com/client/v4", path |-> req.path,
     query |-> [k \in {q \in DOMAIN req.query : req.query[q].kind # "undefined"}
                   |-> req.query[k]]]

\* data = bodyText ? JSON.parse(bodyText) : null, inside the try
CfData(resp) == IF resp.body.text = "empty" THEN JsonNull ELSE resp.body.data

\* The body is not parsed when it is empty; otherwise a parse error throws
CfParseFails(resp) == resp.body.text # "empty" /\ JsonParseThrows(resp.body)

\* cf(token, req) once fetch has answered with resp
Cf(req, resp) ==
    IF CfParseFails(resp)
    THEN [threw |-> TRUE, error |-> "CloudflareApiError", why |-> "non-JSON",
          status |-> resp.status, url |-> CfUrl(req), value |-> Undefined]
    ELSE IF ~RespOk(resp) \/ SuccessIsFalse(CfData(resp))
    THEN [threw |-> TRUE, error |-> "CloudflareApiError", why |-> "failed",
          status |-> resp.status, url |-> CfUrl(req), value |-> Undefined]
    ELSE [threw |-> FALSE, error |-> "none", why |-> "none",
          status |-> resp.status, url |-> CfUrl(req),
          value |-> ResultOf(CfData(resp))]

(***************************************************************************)
(* cf against an arbitrary HTTP response                                   *)
(***************************************************************************)

Statuses == {200, 204, 299, 199, 300, 404, 500}

Payloads == {Undefined, JsonNull, JsonArray(<<>>), [kind |-> "scalar"]}

JsonDatas ==
    {JsonNull, [kind |-> "scalar"], JsonArray(<<>>)}
    \cup {Envelope(s, r) : s \in {"true", "false", "absent"}, r \in Payloads}

Bodies == {EmptyBody, GarbageBody} \cup {JsonBody(d) : d \in JsonDatas}

Responses == [status : Statuses, body : Bodies]

CfRequests ==
    [method : {"GET", "POST", "PUT"},
     path : {"/zones", "/zones/z1/dns_records"},
     query : {<<>>, [name |-> Param("a.b"), page |-> Undefined]}]

NoCf == [threw |-> FALSE, error |-> "none", why |-> "idle", status |-> 0,
         url |-> [base |-> "", path |-> "", query |-> <<>>], value |-> Undefined]

NoReq == [method |-> "GET", path |-> "/zones", query |-> <<>>]
NoResp == [status |-> 0, body |-> EmptyBody]

\* One call of cf: the request, fetch's answer, the outcome
CfCall ==
    \E req \in CfRequests, resp \in Responses :
        /\ cfReq' = req
        /\ cfResp' = resp
        /\ cfOut' = Cf(req, resp)
        /\ UNCHANGED <<dnsVars, routeVars, zoneVars, toolVars>>


(***************************************************************************)
(* The remote control plane                                                *)
(*                                                                         *)
(* It serves a request against its current state in one step, or refuses   *)
(* it (an HTTP error, an envelope with success=false, a gateway's HTML     *)
(* page) and leaves its state alone.                                       *)
(***************************************************************************)

OkResponse(result) == [status |-> 200, body |-> JsonBody(Envelope("true", result))]

FailResponses ==
    {[status |-> 500, body |-> JsonBody(Envelope("false", JsonNull))],
     [status |-> 200, body |-> JsonBody(Envelope("false", JsonNull))],
     [status |-> 502, body |-> GarbageBody]}

\* The remote lists a collection in creation order
RECURSIVE SeqById(_)
SeqById(S) ==
    IF S = {} THEN <<>>
    ELSE LET m == CHOOSE r \in S : \A q \in S : r.id <= q.id
         IN  <<m>> \o SeqById(S \ {m})

\* The listing with names compared letter for letter
RemoteDnsListExact(records, name) == SeqById({r \in records : r.name = name})

\* GET /zones/{zoneId}/dns_records?name=...: DNS names match regardless of case
RemoteDnsList(records, name) ==
    SeqById({r \in records : ToLowerCase(r.name) = ToLowerCase(name)})

\* POST /zones/{zoneId}/dns_records: the record created from the body
RemoteDnsCreated(id, body) ==
    [id |-> id, type |-> body.type, name |-> body.name, content |-> body.content,
     proxied |-> body.proxied, ttl |-> body.ttl]

\* PUT that adds the record of the body and keeps the one it had
RemoteDnsAppend(records, id, body) == records \cup {RemoteDnsCreated(id, body)}

\* PUT /zones/{zoneId}/dns_records/{id}: the record overwritten from the body
RemoteDnsReplace(records, id, body) ==
    {r \in records : r.id # id} \cup {RemoteDnsCreated(id, body)}

(***************************************************************************)
(* ensureDnsA                                                              *)
(***************************************************************************)

DnsCallers == {"p", "q"}

NameAB  == <<"a", ".", "b">>
NameABu == <<"A", ".", "b">>
NameXB  == <<"x", ".", "b">>

Ips == {"203.0.113.9", "192.0.2.1"}

DnsArgs ==
    [recordName : {NameAB, NameABu}, ip : Ips,
     proxied : {"undefined", "true", "false"}, force : BOOLEAN]

\* proxied ?? true
ProxiedOrTrue(p) == IF p = "undefined" THEN TRUE ELSE p = "true"

\* const desired = {type, name, content, ttl, proxied}
Desired(args) ==
    [type |-> "A", name |-> args.recordName, content |-> args.ip, ttl |-> 1,
     proxied |-> ProxiedOrTrue(args.proxied)]

\* matches without the comparison of content
MatchesNoContent(record, args) ==
    /\ record.type = Desired(args).type
    /\ ToLowerCase(record.name) = ToLowerCase(Desired(args).name)
    /\ record.proxied = Desired(args).proxied

\* matches without the comparison of type
MatchesNoType(record, args) ==
    /\ ToLowerCase(record.name) = ToLowerCase(Desired(args).name)
    /\ record.content = Desired(args).content
    /\ record.proxied = Desired(args).proxied

\* matches with Boolean(proxied) in place of Boolean(desired.proxied)
MatchesRawProxied(record, args) ==
    /\ record.type = Desired(args).type
    /\ ToLowerCase(record.name) = ToLowerCase(Desired(args).name)
    /\ record.content = Desired(args).content
    /\ record.proxied = (args.proxied = "true")

\* const matches = ..., the record compared with desired
Matches(record, args) ==
    /\ record.type = Desired(args).type
    /\ ToLowerCase(record.name) = ToLowerCase(Desired(args).name)
    /\ record.content = Desired(args).content
    /\ record.proxied = Desired(args).proxied

\* existing.length > 2
TooManyOffByOne(existing) == Len(existing) > 2

\* if (existing.length > 1) throw
TooMany(existing) == Len(existing) > 1

\* const existing = Array.isArray(records) ? records : []
ArrayOrEmpty(value) == IF value.kind = "array" THEN value.items ELSE <<>>

NoOutcome == [kind |-> "none", id |-> 0]
DnsSuccess == {"created", "unchanged", "updated"}

DnsIdle ==
    [pc |-> "idle", args |-> [recordName |-> NameAB, ip |-> "192.0.2.1",
                              proxied |-> "undefined", force |-> FALSE],
     pre |-> {}, existing |-> <<>>, out |-> NoOutcome,
     gets |-> 0, posts |-> 0, puts |-> 0, rerun |-> FALSE, after |-> "none"]

\* ensureDnsA once the lookup has answered: lines 174 to 206, up to the next
\* request or the return
DnsAfterGet(call, r) ==
    LET existing == ArrayOrEmpty(r.value)
        base     == [call EXCEPT !.gets = @ + 1, !.existing = existing]
    IN  IF r.threw
          THEN [base EXCEPT !.pc = "done", !.out = [kind |-> "ApiError", id |-> 0],
                            !.existing = <<>>]
        ELSE IF TooMany(existing)
          THEN [base EXCEPT !.pc = "done", !.out = [kind |-> "AmbiguousRecord", id |-> 0]]
        ELSE IF Len(existing) = 0
          THEN [base EXCEPT !.pc = "post"]
        ELSE IF Matches(existing[1], call.args)
          THEN [base EXCEPT !.pc = "done",
                            !.out = [kind |-> "unchanged", id |-> existing[1].id]]
        ELSE IF ~call.args.force
          THEN [base EXCEPT !.pc = "done", !.out = [kind |-> "DnsConflict", id |-> 0]]
        ELSE [base EXCEPT !.pc = "put"]

\* return { action: 'created', id: created?.id }
DnsAfterPost(call, r) ==
    IF r.threw
    THEN [call EXCEPT !.posts = @ + 1, !.pc = "done",
                      !.out = [kind |-> "ApiError", id |-> 0]]
    ELSE [call EXCEPT !.posts = @ + 1, !.pc = "done",
                      !.out = [kind |-> "created", id |-> r.value.rec.id]]

\* return { action: 'updated', id: updated?.id ?? record.id }
DnsAfterPut(call, r) ==
    IF r.threw
    THEN [call EXCEPT !.puts = @ + 1, !.pc = "done",
                      !.out = [kind |-> "ApiError", id |-> 0]]
    ELSE [call EXCEPT !.puts = @ + 1, !.pc = "done",
                      !.out = [kind |-> "updated",
                               id |-> IF r.value.kind = "record" THEN r.value.rec.id
                                      ELSE call.existing[1].id]]

DnsGetReq(args) ==
    [method |-> "GET", path |-> "/zones/z1/dns_records",
     query |-> [name |-> Param(args.recordName), per_page |-> Param(100),
                page |-> Param(1)]]
DnsPostReq == [method |-> "POST", path |-> "/zones/z1/dns_records", query |-> <<>>]
DnsPutReq  == [method |-> "PUT", path |-> "/zones/z1/dns_records/{id}", query |-> <<>>]

\* A caller invokes ensureDnsA
DnsStart(p) ==
    /\ dnsCall[p].pc \in {"idle", "done"}
    /\ \E args \in DnsArgs :
           dnsCall' = [dnsCall EXCEPT ![p] =
               [DnsIdle EXCEPT !.pc = "get", !.args = args, !.pre = dnsRecords]]
    /\ UNCHANGED <<dnsRecords, dnsNextId, cfVars, toolVars, routeVars, zoneVars>>

\* The caller repeats the invocation that has just succeeded, with the same
\* arguments and either value of force
DnsRerun(p) ==
    /\ dnsCall[p].pc = "done"
    /\ dnsCall[p].out.kind \in DnsSuccess
    /\ \E f \in BOOLEAN :
           dnsCall' = [dnsCall EXCEPT ![p] =
               [DnsIdle EXCEPT !.pc = "get", !.args = [dnsCall[p].args EXCEPT !.force = f],
                               !.pre = dnsRecords, !.rerun = TRUE,
                               !.after = dnsCall[p].out.kind]]
    /\ UNCHANGED <<dnsRecords, dnsNextId, cfVars, toolVars, routeVars, zoneVars>>

\* await cf(GET dns_records?name=recordName), then the code up to the next await
DnsGet(p) ==
    /\ dnsCall[p].pc = "get"
    /\ \/ \E resp \in FailResponses :
              dnsCall' = [dnsCall EXCEPT ![p] =
                  DnsAfterGet(@, Cf(DnsGetReq(@.args), resp))]
       \/ dnsCall' = [dnsCall EXCEPT ![p] =
              DnsAfterGet(@, Cf(DnsGetReq(@.args),
                  OkResponse(JsonArray(RemoteDnsList(dnsRecords, @.args.recordName)))))]
    /\ UNCHANGED <<dnsRecords, dnsNextId, cfVars, toolVars, routeVars, zoneVars>>

\* await cf(POST dns_records, desired)
DnsPost(p) ==
    /\ dnsCall[p].pc = "post"
    /\ \/ /\ \E resp \in FailResponses :
                 dnsCall' = [dnsCall EXCEPT ![p] = DnsAfterPost(@, Cf(DnsPostReq, resp))]
          /\ UNCHANGED <<dnsRecords, dnsNextId>>
       \/ LET rec == RemoteDnsCreated(dnsNextId, Desired(dnsCall[p].args))
          IN  /\ dnsRecords' = dnsRecords \cup {rec}
              /\ dnsNextId' = dnsNextId + 1
              /\ dnsCall' = [dnsCall EXCEPT ![p] =
                     DnsAfterPost(@, Cf(DnsPostReq,
                         OkResponse([kind |-> "record", rec |-> rec])))]
    /\ UNCHANGED <<cfVars, toolVars, routeVars, zoneVars>>

\* await cf(PUT dns_records/{record.id}, desired)
DnsPut(p) ==
    /\ dnsCall[p].pc = "put"
    /\ LET id == dnsCall[p].existing[1].id
       IN  \/ /\ \E resp \in FailResponses :
                     dnsCall' = [dnsCall EXCEPT ![p] = DnsAfterPut(@, Cf(DnsPutReq, resp))]
              /\ UNCHANGED dnsRecords
           \/ /\ \E r \in dnsRecords : r.id = id
              /\ dnsRecords' = RemoteDnsReplace(dnsRecords, id, Desired(dnsCall[p].args))
              /\ dnsCall' = [dnsCall EXCEPT ![p] =
                     DnsAfterPut(@, Cf(DnsPutReq,
                         OkResponse([kind |-> "record",
                                     rec |-> RemoteDnsCreated(id, Desired(@.args))])))]
    /\ UNCHANGED <<dnsNextId, cfVars, toolVars, routeVars, zoneVars>>

\* The records a zone may hold before the first invocation
DnsPool ==
    {[type |-> "A",     name |-> NameAB,  content |-> "203.0.113.9", proxied |-> TRUE,  ttl |-> 1],
     [type |-> "A",     name |-> NameAB,  content |-> "203.0.113.9", proxied |-> TRUE,  ttl |-> 300],
     [type |-> "A",     name |-> NameABu, content |-> "203.0.113.9", proxied |-> TRUE,  ttl |-> 1],
     [type |-> "CNAME", name |-> NameAB,  content |-> "203.0.113.9", proxied |-> TRUE,  ttl |-> 1],
     [type |-> "A",     name |-> NameAB,  content |-> "192.0.2.1",   proxied |-> TRUE,  ttl |-> 1],
     [type |-> "A",     name |-> NameAB,  content |-> "203.0.113.9", proxied |-> FALSE, ttl |-> 1],
     [type |-> "A",     name |-> NameXB,  content |-> "203.0.113.9", proxied |-> TRUE,  ttl |-> 1]}

MaxDnsRecords == 3

\* The members of a finite set in some order
Enumerated(S) ==
    CHOOSE g \in [1..Cardinality(S) -> S] : \A r \in S : \E i \in DOMAIN g : g[i] = r

DnsStores ==
    {{RemoteDnsCreated(i, Enumerated(S)[i]) : i \in 1..Cardinality(S)} :
        S \in {T \in SUBSET DnsPool : Cardinality(T) <= MaxDnsRecords}}

DnsCalls0 == [p \in DnsCallers |-> DnsIdle]

\* No two records of the zone bear the same name, whatever the case
OneRecordPerName(records) ==
    \A r1 \in records, r2 \in records :
        ToLowerCase(r1.name) = ToLowerCase(r2.name) => r1 = r2

\* A caller invokes ensureDnsA with arguments of a given set
DnsStartFrom(p, argsSet) ==
    /\ dnsCall[p].pc \in {"idle", "done"}
    /\ \E args \in argsSet :
           dnsCall' = [dnsCall EXCEPT ![p] =
               [DnsIdle EXCEPT !.pc = "get", !.args = args, !.pre = dnsRecords]]
    /\ UNCHANGED <<dnsRecords, dnsNextId, cfVars, toolVars, routeVars, zoneVars>>

\* for any of the names
DnsArgsAny ==
    [recordName : {NameAB, NameABu, NameXB}, ip : Ips,
     proxied : {"undefined", "true", "false"}, force : BOOLEAN]
DnsStartAny(p) == DnsStartFrom(p, DnsArgsAny)

\* for one name, in either case, by callers that leave proxied to its default
DnsArgsRace ==
    [recordName : {NameAB, NameABu}, ip : Ips, proxied : {"undefined"}, force : BOOLEAN]
DnsStartRace(p) == DnsStartFrom(p, DnsArgsRace)

(***************************************************************************)
(* ensureWorkerRoutes                                                      *)
(***************************************************************************)

PatA  == <<"a", "/", "*">>
PatAu == <<"A", "/", "*">>
PatB  == <<"b", "/", "*">>
Patterns == {PatA, PatAu, PatB}

Scripts == {"w", "x"}
WorkerNames == {"w"}

MaxPatterns == 3
MaxExternal == 1

PatternLists == UNION {[1..n -> Patterns] : n \in 0..MaxPatterns}

RtArgs == [workerName : WorkerNames, patterns : PatternLists, force : BOOLEAN]

\* r.pattern === pattern, the case of the letters kept
SamePatternExact(a, b) == a = b

\* r.pattern and pattern are the same but for the case of their letters
SamePattern(a, b) == ToLowerCase(a) = ToLowerCase(b)

\* list.find((r) => String(r?.pattern).toLowerCase() === String(pattern).toLowerCase()):
\* the positions that match; find takes the first
FindAll(list, pattern) == {k \in DOMAIN list : SamePattern(list[k].pattern, pattern)}
Found(list, pattern) == FindAll(list, pattern) # {}
Find(list, pattern) ==
    list[CHOOSE k \in FindAll(list, pattern) : \A j \in FindAll(list, pattern) : k <= j]

\* The turn without the test existing.script === workerName
RtDecideNoSkip(list, pattern, workerName, force) ==
    IF ~Found(list, pattern) THEN "create"
    ELSE IF ~force THEN "conflict"
    ELSE "update"

\* The turn without the test of force
RtDecideForceIgnored(list, pattern, workerName, force) ==
    IF ~Found(list, pattern) THEN "create"
    ELSE IF Find(list, pattern).script = workerName THEN "skip"
    ELSE "update"

\* One turn of the loop, lines 221 to 238: what the code does for a pattern
RtDecide(list, pattern, workerName, force) ==
    IF ~Found(list, pattern) THEN "create"
    ELSE IF Find(list, pattern).script = workerName THEN "skip"
    ELSE IF ~force THEN "conflict"
    ELSE "update"

\* GET /zones/{zoneId}/workers/routes
RemoteRouteList(rs) == SeqById(rs)

\* POST /zones/{zoneId}/workers/routes
RemoteRouteCreated(id, body) == [id |-> id, pattern |-> body.pattern, script |-> body.script]

\* PUT /zones/{zoneId}/workers/routes/{id}
RemoteRouteReplace(rs, id, body) ==
    {r \in rs : r.id # id} \cup {RemoteRouteCreated(id, body)}

\* body: { pattern, script: workerName }
RtBody(call) == [pattern |-> call.args.patterns[call.i], script |-> call.args.workerName]

RtNoOutcome == [kind |-> "none", owner |-> "", at |-> 0]

RtIdle ==
    [pc |-> "idle", args |-> [workerName |-> "w", patterns |-> <<>>, force |-> FALSE],
     list |-> <<>>, i |-> 0, pre |-> {}, out |-> RtNoOutcome, gets |-> 0,
     writes |-> {}, mode |-> "fresh", touched |-> FALSE, ext |-> 0, before |-> 0]

\* The loop moves to the next pattern, or the function returns
RtAdvance(call) ==
    IF call.i >= Len(call.args.patterns)
    THEN [call EXCEPT !.pc = "done", !.out = [RtNoOutcome EXCEPT !.kind = "ok"]]
    ELSE [call EXCEPT !.i = @ + 1]

RtFailed(call) ==
    [call EXCEPT !.pc = "done", !.out = [RtNoOutcome EXCEPT !.kind = "ApiError"]]

\* const list = Array.isArray(routes) ? routes : [], then the loop begins
RtAfterGet(call, r) ==
    IF r.threw THEN RtFailed([call EXCEPT !.gets = @ + 1])
    ELSE RtAdvance([call EXCEPT !.gets = @ + 1, !.list = ArrayOrEmpty(r.value),
                                !.pc = "loop", !.i = 0])

\* A write request of the loop has been answered
RtAfterWrite(call, method, r) ==
    LET sent == [call EXCEPT !.writes = @ \cup {<<method, call.i>>}]
    IN  IF r.threw THEN RtFailed(sent) ELSE RtAdvance(sent)

RtGetReq  == [method |-> "GET", path |-> "/zones/z1/workers/routes", query |-> <<>>]
RtPostReq == [method |-> "POST", path |-> "/zones/z1/workers/routes", query |-> <<>>]
RtPutReq  == [method |-> "PUT", path |-> "/zones/z1/workers/routes/{id}", query |-> <<>>]

\* What the current turn of the loop does
RtTurn(call) ==
    RtDecide(call.list, call.args.patterns[call.i], call.args.workerName, call.args.force)

\* The first invocation of ensureWorkerRoutes
RtStart ==
    /\ rtCall.pc = "idle"
    /\ \E args \in RtArgs :
           rtCall' = [RtIdle EXCEPT !.pc = "get", !.args = args, !.pre = routes]
    /\ UNCHANGED <<routes, rtNextId, cfVars, toolVars, dnsVars, zoneVars>>

\* The same invocation again after it succeeded, the routes not touched since
RtRerun ==
    /\ rtCall.pc = "done"
    /\ rtCall.out.kind = "ok"
    /\ ~rtCall.touched
    /\ rtCall' = [RtIdle EXCEPT !.pc = "get", !.args = rtCall.args, !.pre = routes,
                                !.mode = "rerun", !.ext = rtCall.ext,
                                !.before = Cardinality(rtCall.writes)]
    /\ UNCHANGED <<routes, rtNextId, cfVars, toolVars, dnsVars, zoneVars>>

\* The invocation again after it failed with a conflict: the same worker and
\* patterns, force as the operator now sets it
RtRetry ==
    /\ rtCall.pc = "done"
    /\ rtCall.out.kind = "RouteConflict"
    /\ \E f \in BOOLEAN :
           rtCall' = [RtIdle EXCEPT !.pc = "get", !.args = [rtCall.args EXCEPT !.force = f],
                                    !.pre = routes, !.mode = "retry", !.ext = rtCall.ext,
                                    !.before = rtCall.out.at]
    /\ UNCHANGED <<routes, rtNextId, cfVars, toolVars, dnsVars, zoneVars>>

\* const routes = await cf(GET workers/routes)
RtGet ==
    /\ rtCall.pc = "get"
    /\ \/ \E resp \in FailResponses : rtCall' = RtAfterGet(rtCall, Cf(RtGetReq, resp))
       \/ rtCall' = RtAfterGet(rtCall,
              Cf(RtGetReq, OkResponse(JsonArray(RemoteRouteList(routes)))))
    /\ UNCHANGED <<routes, rtNextId, cfVars, toolVars, dnsVars, zoneVars>>

\* if (!existing) { await cf(POST workers/routes, {pattern, script}); continue }
RtCreate ==
    /\ rtCall.pc = "loop"
    /\ RtTurn(rtCall) = "create"
    /\ \/ /\ \E resp \in FailResponses :
                 rtCall' = RtAfterWrite(rtCall, "POST", Cf(RtPostReq, resp))
          /\ UNCHANGED <<routes, rtNextId>>
       \/ LET route == RemoteRouteCreated(rtNextId, RtBody(rtCall))
          IN  /\ routes' = routes \cup {route}
              /\ rtNextId' = rtNextId + 1
              /\ rtCall' = RtAfterWrite(rtCall, "POST",
                     Cf(RtPostReq, OkResponse([kind |-> "record", rec |-> route])))
    /\ UNCHANGED <<cfVars, toolVars, dnsVars, zoneVars>>

\* if (existing.script === workerName) continue
RtSkip ==
    /\ rtCall.pc = "loop"
    /\ RtTurn(rtCall) = "skip"
    /\ rtCall' = RtAdvance(rtCall)
    /\ UNCHANGED <<routes, rtNextId, cfVars, toolVars, dnsVars, zoneVars>>

\* if (!force) throw new Error(`Worker route ... is already bound to ${existing.script}`)
RtConflict ==
    /\ rtCall.pc = "loop"
    /\ RtTurn(rtCall) = "conflict"
    /\ rtCall' = [rtCall EXCEPT !.pc = "done",
           !.out = [kind |-> "RouteConflict",
                    owner |-> Find(rtCall.list, rtCall.args.patterns[rtCall.i]).script,
                    at |-> rtCall.i]]
    /\ UNCHANGED <<routes, rtNextId, cfVars, toolVars, dnsVars, zoneVars>>

\* await cf(PUT workers/routes/{existing.id}, {pattern, script})
RtUpdate ==
    /\ rtCall.pc = "loop"
    /\ RtTurn(rtCall) = "update"
    /\ LET id == Find(rtCall.list, rtCall.args.patterns[rtCall.i]).id
       IN  \/ /\ \E resp \in FailResponses :
                     rtCall' = RtAfterWrite(rtCall, "PUT", Cf(RtPutReq, resp))
              /\ UNCHANGED routes
           \/ /\ \E r \in routes : r.id = id
              /\ routes' = RemoteRouteReplace(routes, id, RtBody(rtCall))
              /\ rtCall' = RtAfterWrite(rtCall, "PUT",
                     Cf(RtPutReq, OkResponse([kind |-> "record",
                         rec |-> RemoteRouteCreated(id, RtBody(rtCall))])))
    /\ UNCHANGED <<rtNextId, cfVars, toolVars, dnsVars, zoneVars>>

\* Between two invocations the operator removes a route bound to another script
ExtRemove ==
    /\ rtCall.pc = "done"
    /\ rtCall.ext < MaxExternal
    /\ \E r \in routes :
           /\ r.script # rtCall.args.workerName
           /\ routes' = routes \ {r}
    /\ rtCall' = [rtCall EXCEPT !.touched = TRUE, !.ext = @ + 1]
    /\ UNCHANGED <<rtNextId, cfVars, toolVars, dnsVars, zoneVars>>

\* Between two invocations the operator rebinds a route to the worker
ExtRebind ==
    /\ rtCall.pc = "done"
    /\ rtCall.ext < MaxExternal
    /\ \E r \in routes :
           /\ r.script # rtCall.args.workerName
           /\ routes' = (routes \ {r}) \cup {[r EXCEPT !.script = rtCall.args.workerName]}
    /\ rtCall' = [rtCall EXCEPT !.touched = TRUE, !.ext = @ + 1]
    /\ UNCHANGED <<rtNextId, cfVars, toolVars, dnsVars, zoneVars>>

\* The routes a zone may hold before the first invocation: at most one for a
\* pattern, whatever the case of its letters
RoutePool == [pattern : Patterns, script : Scripts]

RouteStores ==
    {{RemoteRouteCreated(i, Enumerated(S)[i]) : i \in 1..Cardinality(S)} :
        S \in {T \in SUBSET RoutePool :
                 \A r, q \in T : ToLowerCase(r.pattern) = ToLowerCase(q.pattern) => r = q}}

(***************************************************************************)
(* normalizeDomain (deploy/cf-api.mjs)                                     *)
(***************************************************************************)

Letters == {"a", "b", "c", "x", "y", "h", "t", "p", "s",
            "A", "B", "C", "X", "Y", "H", "T", "P", "S"}

\* The path of a parsed http(s) URL, segment by segment: the URL parser drops
\* a "." segment, lets a ".." segment drop the segment before it, and ends
\* the path with an empty segment where the last one was a dot segment
RECURSIVE PathSegments(_, _)
PathSegments(segs, acc) ==
    IF Len(segs) = 0 THEN acc
    ELSE LET seg  == segs[1]
             last == Len(segs) = 1
             next == IF seg = <<".", ".">>
                       THEN (IF Len(acc) > 0 THEN SubSeq(acc, 1, Len(acc) - 1) ELSE acc)
                            \o (IF last THEN <<<<>>>> ELSE <<>>)
                     ELSE IF seg = <<".">>
                       THEN acc \o (IF last THEN <<<<>>>> ELSE <<>>)
                     ELSE Append(acc, seg)
         IN  PathSegments(Tail(segs), next)

\* url.pathname === '/'
PathIsRoot(path) ==
    \/ Len(path) = 0
    \/ PathSegments(Split(Tail(path), "/"), <<>>) = <<<<>>>>

\* The part of s before its first character in cs (all of s when none is),
\* the part from that character on, and the part after it
Before(s, cs) == IF FirstOf(s, cs) = 0 THEN s ELSE SubSeq(s, 1, FirstOf(s, cs) - 1)
From(s, cs)   == IF FirstOf(s, cs) = 0 THEN <<>> ELSE SubSeq(s, FirstOf(s, cs), Len(s))
After(s, cs)  == IF FirstOf(s, cs) = 0 THEN <<>> ELSE SubSeq(s, FirstOf(s, cs) + 1, Len(s))

RECURSIVE SkipSlashes(_)
SkipSlashes(s) == IF Len(s) > 0 /\ s[1] = "/" THEN SkipSlashes(Tail(s)) ELSE s

\* new URL(input) for an input that holds "://", over the model's alphabet
\* (letters, digits in a port, '.', '-', '_', ':', '/', '?', '#', ' '): the scheme, then for http and
\* https the authority after any number of slashes, the host before the port,
\* the path, the query and the fragment.  ok is FALSE where the constructor
\* throws a TypeError.
UrlSchemeOk(input) ==
    /\ FirstOf(input, {":"}) > 1
    /\ input[1] \in Letters
    /\ \A i \in 1..(FirstOf(input, {":"}) - 1) : input[i] \in Letters \cup {".", "-"}

RECURSIVE PortNumber(_, _)
PortNumber(port, acc) ==
    IF Len(port) = 0 THEN acc
    ELSE PortNumber(Tail(port),
             10 * acc + (CHOOSE d \in 0..9 : <<"0", "1", "2", "3", "4", "5", "6", "7", "8", "9">>[d + 1] = port[1]))

UrlHostOk(host, port) ==
    /\ Len(host) > 0
    /\ \A i \in DOMAIN host : host[i] \in Letters \cup {".", "-", "_"}
    /\ \A i \in DOMAIN port : port[i] \in {"0", "1", "2", "3", "4", "5", "6", "7", "8", "9"}
    /\ Len(port) <= 5
    /\ PortNumber(port, 0) <= 65535

UrlFields(scheme, schemeOk, hostOk, host, path, rest) ==
    [ok       |-> schemeOk /\ (scheme \in {<<"h", "t", "t", "p">>,
                                           <<"h", "t", "t", "p", "s">>} => hostOk),
     protocol |-> IF schemeOk THEN scheme \o <<":">> ELSE <<>>,
     hostname |-> IF schemeOk /\ hostOk THEN ToLowerCase(host) ELSE <<>>,
     rootPath |-> PathIsRoot(path),
     search   |-> Len(Before(rest, {"#"})) > 1,
     hash     |-> Len(From(rest, {"#"})) > 1]

UrlAuthority(scheme, schemeOk, auth, tail) ==
    UrlFields(scheme, schemeOk,
              UrlHostOk(Before(auth, {":"}), After(auth, {":"})), Before(auth, {":"}),
              Before(tail, {"?", "#"}), From(tail, {"?", "#"}))

UrlAfterScheme(scheme, schemeOk, after) ==
    UrlAuthority(scheme, schemeOk,
                 Before(after, {"/", "?", "#"}), From(after, {"/", "?", "#"}))

UrlParse(input) ==
    UrlAfterScheme(ToLowerCase(Before(input, {":"})), UrlSchemeOk(input),
                   SkipSlashes(After(input, {":"})))

\* normalizeDomain(raw): ok is FALSE where it throws
RECURSIVE NormalizeDomain(_)
NormalizeDomain(raw) ==
    LET input  == Trim(raw)
        domain == ToLowerCase(StripTrailingDots(input))
        thrown == [ok |-> FALSE, domain |-> <<>>]
    IN  IF Len(raw) = 0 THEN thrown
        ELSE IF Len(input) = 0 THEN thrown
        ELSE IF IncludesScheme(input)
          THEN LET url == UrlParse(input)
               IN  IF ~url.ok THEN thrown
                   ELSE IF url.protocol \notin {<<"h", "t", "t", "p", ":">>,
                                                <<"h", "t", "t", "p", "s", ":">>}
                     THEN thrown
                   ELSE IF ~url.rootPath \/ url.search \/ url.hash THEN thrown
                   ELSE NormalizeDomain(url.hostname)
        ELSE IF Includes(input, "/") \/ Includes(input, "?") \/ Includes(input, "#")
          THEN thrown
        ELSE IF Includes(input, ":") THEN thrown
        ELSE IF ~Includes(domain, ".") THEN thrown
        ELSE [ok |-> TRUE, domain |-> domain]

(***************************************************************************)
(* resolveZone                                                             *)
(***************************************************************************)

\* The loop with the bound i <= labels.length - 1
CandidatesAll(labels) ==
    [i \in 1..Len(labels) |-> JoinDot(SubSeq(labels, i, Len(labels)))]

\* for (let i = 0; i <= labels.length - 2; i++) candidates.push(labels.slice(i).join('.'))
Candidates(labels) ==
    [i \in 1..(Len(labels) - 1) |-> JoinDot(SubSeq(labels, i, Len(labels)))]

\* GET /zones?name=...&status=active: the zones of that name and status
RemoteZoneList(zs, name, status) ==
    SeqById({z \in zs : z.name = name /\ z.status = status})

\* Array.isArray(result) && result.find((z) => z?.name === name)
ZoneFound(value, name) ==
    \E k \in DOMAIN ArrayOrEmpty(value) : ArrayOrEmpty(value)[k].name = name
ZoneFind(value, name) ==
    LET list == ArrayOrEmpty(value)
    IN  list[CHOOSE k \in DOMAIN list :
                 list[k].name = name /\ \A j \in 1..(k - 1) : list[j].name # name]

ZNoOutcome == [kind |-> "none", zone_id |-> 0, zone_name |-> <<>>, account_id |-> ""]

ZIdle ==
    [pc |-> "idle", domain |-> <<>>, normalized |-> <<>>, candidates |-> <<>>,
     i |-> 0, out |-> ZNoOutcome, queried |-> <<>>]

\* resolveZone up to its first request: lines 138 to 145
ZBegin(domain) ==
    LET n      == NormalizeDomain(domain)
        labels == SplitDot(n.domain)
    IN  IF ~n.ok \/ Len(labels) < 2
        THEN [ZIdle EXCEPT !.pc = "done", !.domain = domain,
                           !.out = [ZNoOutcome EXCEPT !.kind = "InvalidDomain"]]
        ELSE [ZIdle EXCEPT !.pc = "query", !.domain = domain, !.normalized = n.domain,
                           !.candidates = Candidates(labels), !.i = 1]

\* One turn of the loop over the candidates, once the query has been answered
ZAfterQuery(call, r) ==
    LET name == call.candidates[call.i]
        sent == [call EXCEPT !.queried = Append(@, name)]
    IN  IF r.threw
          THEN [sent EXCEPT !.pc = "done", !.out = [ZNoOutcome EXCEPT !.kind = "ApiError"]]
        ELSE IF ZoneFound(r.value, name)
          THEN [sent EXCEPT !.pc = "done",
                   !.out = [kind |-> "ok", zone_id |-> ZoneFind(r.value, name).id,
                            zone_name |-> ZoneFind(r.value, name).name,
                            account_id |-> ZoneFind(r.value, name).account]]
        ELSE IF call.i >= Len(call.candidates)
          THEN [sent EXCEPT !.pc = "done",
                            !.out = [ZNoOutcome EXCEPT !.kind = "ZoneNotFound"]]
        ELSE [sent EXCEPT !.i = @ + 1]

ZoneReq(name) ==
    [method |-> "GET", path |-> "/zones",
     query |-> [name |-> Param(name), status |-> Param("active"),
                per_page |-> Param(50), page |-> Param(1)]]

MaxLabels == 4

\* The labels of the model's domains, the top-level one first
LabelChain == <<"c", "b", "a", "x", "y">>

\* The domain of n labels: x.a.b.c for n = 4
RECURSIVE ChainDomain(_)
ChainDomain(n) ==
    IF n = 1 THEN <<LabelChain[1]>>
    ELSE <<LabelChain[n], ".">> \o ChainDomain(n - 1)

UpperFirst(s) ==
    [i \in DOMAIN s |-> IF i = 1 THEN (CHOOSE u \in Letters : u # s[1] /\ LowerChar(u) = s[1])
                        ELSE s[i]]

\* What a caller may pass for a domain: a host name as it is, in upper case,
\* with a trailing dot, padded, as a URL; and what normalizeDomain refuses
DomainForms(d) ==
    {d, UpperFirst(d), d \o <<".">>, <<" ">> \o d \o <<" ">>,
     <<"H", "t", "t", "p", "s", ":", "/", "/">> \o d \o <<"/">>,
     <<"h", "t", "t", "p", ":", "/", "/">> \o d \o <<"/", "b">>,
     d \o <<":", "a">>, <<".", ".">> \o d}

ZoneDomains == UNION {DomainForms(ChainDomain(n)) : n \in 1..MaxLabels}

\* The zones an account may hold: one per name at most, active or pending
ZoneNames == {ChainDomain(n) : n \in 1..MaxLabels} \cup {<<"y", ".", "c">>}

ZoneStores ==
    {{[id |-> i, name |-> Enumerated(DOMAIN f)[i], status |-> f[Enumerated(DOMAIN f)[i]],
       account |-> "acct"] : i \in 1..Cardinality(DOMAIN f)} :
        f \in UNION {[N -> {"active", "pending"}] : N \in SUBSET ZoneNames}}

\* A caller invokes resolveZone
ZStart ==
    /\ zCall.pc = "idle"
    /\ \E domain \in ZoneDomains : zCall' = ZBegin(domain)
    /\ UNCHANGED <<zones, cfVars, toolVars, dnsVars, routeVars>>

\* const result = await cf(GET /zones?name=...&status=active), then the turn
ZQuery ==
    /\ zCall.pc = "query"
    /\ \/ \E resp \in FailResponses :
              zCall' = ZAfterQuery(zCall, Cf(ZoneReq(zCall.candidates[zCall.i]), resp))
       \/ zCall' = ZAfterQuery(zCall, Cf(ZoneReq(zCall.candidates[zCall.i]),
              OkResponse(JsonArray(
                  RemoteZoneList(zones, zCall.candidates[zCall.i], "active")))))
    /\ UNCHANGED <<zones, cfVars, toolVars, dnsVars, routeVars>>

(***************************************************************************)
(* main: the command line of deploy/cf-api.mjs                             *)
(*                                                                         *)
(* An element of argv is the command word, a flag "--key" or another word; *)
(* only a flag starts with "--".  A parsed option is true or a string.     *)
(***************************************************************************)

Cmd(name) == [cmd |-> name]
Flag(key) == [flag |-> key]
Word(s)   == [word |-> s]

\* arg.startsWith('--')
IsFlag(arg) == "flag" \in DOMAIN arg

True == [kind |-> "true"]
Str(s) == [kind |-> "string", s |-> s]

\* out[key] = value
SetOpt(out, key, value) ==
    [out EXCEPT !.opt = [k \in (DOMAIN out.opt) \cup {key} |->
                            IF k = key THEN value ELSE out.opt[k]]]

\* A positional argument as parseArgs keeps it
Positional(arg) == IF "cmd" \in DOMAIN arg THEN Str(arg.cmd) ELSE Str(arg.word)

\* parseArgs, the loop from position i on
RECURSIVE ParseFrom(_, _, _)
ParseFrom(argv, i, out) ==
    IF i > Len(argv) THEN out
    ELSE IF ~IsFlag(argv[i])
      THEN ParseFrom(argv, i + 1, [out EXCEPT !.pos = Append(@, Positional(argv[i]))])
    ELSE IF i + 1 <= Len(argv) /\ ~IsFlag(argv[i + 1])
      THEN ParseFrom(argv, i + 2, SetOpt(out, argv[i].flag, Positional(argv[i + 1])))
    ELSE ParseFrom(argv, i + 1, SetOpt(out, argv[i].flag, True))

\* parseArgs(argv)
ParseArgs(argv) == ParseFrom(argv, 1, [pos |-> <<>>, opt |-> <<>>])

\* args[key]
Opt(args, key) == IF key \in DOMAIN args.opt THEN args.opt[key] ELSE Undefined

\* a ?? b
Nullish(a, b) == IF a.kind = "undefined" THEN b ELSE a

\* String(v) of a parsed option
StringOf(v) == IF v.kind = "true" THEN <<"t", "r", "u", "e">> ELSE v.s

\* getToken: String(args.token ?? process.env.CLOUDFLARE_API_TOKEN ?? '').trim()
GetToken(args, env) == Trim(StringOf(Nullish(Opt(args, "token"), Nullish(env.token, Str(<<>>)))))

\* parseBool
TrueWords == {<<"1">>, <<"t", "r", "u", "e">>, <<"y", "e", "s">>, <<"y">>, <<"o", "n">>}
ParseBool(v) ==
    IF v.kind = "true" THEN TRUE
    ELSE IF v.kind = "undefined" THEN FALSE
    ELSE ToLowerCase(Trim(StringOf(v))) \in TrueWords

\* normalizeDomain(raw) of an option or environment value: !raw throws, as
\* does what normalizeDomain refuses in String(raw)
DomainOf(raw) ==
    IF raw.kind = "undefined" \/ (raw.kind = "string" /\ raw.s = <<>>)
    THEN [ok |-> FALSE, domain |-> <<>>]
    ELSE NormalizeDomain(StringOf(raw))

\* rawRoutes.flatMap((s) => s.split(',')).map((s) => s.trim()).filter(Boolean)
NonEmpty(seq) == SelectSeq(seq, LAMBDA s : Len(s) > 0)
TrimAll(seq) == [i \in DOMAIN seq |-> Trim(seq[i])]
RoutePatterns(args) ==
    IF Opt(args, "route").kind = "string"
    THEN NonEmpty(TrimAll(Split(Opt(args, "route").s, ",")))
    ELSE <<>>

\* What main does before it calls an operation: it exits, or it calls
Plan0 ==
    [kind |-> "exit", code |-> 0, error |-> "none", op |-> "none", token |-> <<>>,
     domain |-> <<>>, dns |-> DnsIdle.args, rt |-> RtIdle.args]
Exit(code, error) == [Plan0 EXCEPT !.code = code, !.error = error]
Call(op, token) == [Plan0 EXCEPT !.kind = "call", !.op = op, !.token = token]

\* if (cmd === 'resolve-zone'): lines 277 to 285
PlanResolveZone(args, env, token) ==
    IF ~DomainOf(Nullish(Opt(args, "domain"), env.domain)).ok
    THEN Exit(1, "InvalidDomain")
    ELSE [Call("resolve-zone", token) EXCEPT
             !.domain = DomainOf(Nullish(Opt(args, "domain"), env.domain)).domain]

\* if (cmd === 'ensure-dns-a'): lines 287 to 300
PlanEnsureDnsA(args, env, token) ==
    IF ~DomainOf(Nullish(Opt(args, "name"), Nullish(Opt(args, "domain"), env.domain))).ok
    THEN Exit(1, "InvalidDomain")
    ELSE IF Trim(StringOf(Nullish(Opt(args, "zone-id"), Str(<<>>)))) = <<>>
    THEN Exit(1, "--zone-id is required")
    ELSE [Call("ensure-dns-a", token) EXCEPT
             !.dns = [recordName |->
                          DomainOf(Nullish(Opt(args, "name"),
                                           Nullish(Opt(args, "domain"), env.domain))).domain,
                      ip |-> "192.0.2.1",
                      proxied |-> IF Opt(args, "proxied").kind = "undefined" THEN "true"
                                  ELSE IF ParseBool(Opt(args, "proxied")) THEN "true"
                                  ELSE "false",
                      force |-> ParseBool(Nullish(Opt(args, "force"), env.force_dns))]]

\* A worker is named by one letter: the name as the routes hold it
ScriptName(chars) == chars[1]

\* if (cmd === 'ensure-worker-routes'): lines 302 to 324
PlanEnsureWorkerRoutes(args, env, token) ==
    IF Trim(StringOf(Nullish(Opt(args, "zone-id"), Str(<<>>)))) = <<>>
    THEN Exit(1, "--zone-id is required")
    ELSE IF Trim(StringOf(Nullish(Opt(args, "worker-name"), Str(<<>>)))) = <<>>
    THEN Exit(1, "--worker-name is required")
    ELSE IF Len(RoutePatterns(args)) = 0
    THEN Exit(1, "--route is required")
    ELSE [Call("ensure-worker-routes", token) EXCEPT
             !.rt = [workerName |->
                         ScriptName(Trim(StringOf(Opt(args, "worker-name")))),
                     patterns |-> RoutePatterns(args),
                     force |-> ParseBool(Nullish(Opt(args, "force"), env.force_routes))]]

\* The module's top level, lines 268 to 328, up to the call of an operation
MainOf(args, env) ==
    IF Len(args.pos) = 0 THEN Exit(2, "usage")
    ELSE IF GetToken(args, env) = <<>> THEN Exit(1, "MissingCredential")
    ELSE IF args.pos[1] = Str("resolve-zone")
      THEN PlanResolveZone(args, env, GetToken(args, env))
    ELSE IF args.pos[1] = Str("ensure-dns-a")
      THEN PlanEnsureDnsA(args, env, GetToken(args, env))
    ELSE IF args.pos[1] = Str("ensure-worker-routes")
      THEN PlanEnsureWorkerRoutes(args, env, GetToken(args, env))
    ELSE Exit(2, "Unknown command")

Main(argv, env) == MainOf(ParseArgs(argv), env)

\* One run of the command: what it was given, where it is, how it ended
CliIdle ==
    [pc |-> "idle", argv |-> <<>>, env |-> [token |-> Undefined, domain |-> Undefined,
                                            force_dns |-> Undefined,
                                            force_routes |-> Undefined],
     op |-> "none", token |-> <<>>, code |-> 0, error |-> "none", count |-> 0]

CliBegun(argv, env) ==
    [CliIdle EXCEPT !.argv = argv, !.env = env, !.op = Main(argv, env).op,
                    !.token = Main(argv, env).token,
                    !.pc = IF Main(argv, env).kind = "exit" THEN "exit" ELSE "call",
                    !.code = Main(argv, env).code, !.error = Main(argv, env).error]

\* c repeated n times
Rep(c, n) == [i \in 1..n |-> c]

\* Domains a caller may give: host names and a URL that normalizeDomain of
\* the configuration resolver accepts, and one input against each of its rules
GoodDomains ==
    {<<"a", ".", "b">>, <<"a", ".", "b", ".", "c">>, <<"A", ".", "b", ".", "c">>,
     <<"h", "t", "t", "p", "s", ":", "/", "/", "b", ".", "c", "/">>}
BadDomains ==
    {<<"a", "_", "b", ".", "c">>, <<"a", ".", ".", "b", ".", "c">>,
     Rep("a", 64) \o <<".", "b", ".", "c">>,
     <<"-", "a", ".", "b", ".", "c">>, <<"a", "-", ".", "b", ".", "c">>,
     Rep("a", 63) \o <<".">> \o Rep("a", 63) \o <<".">> \o Rep("a", 63) \o <<".">>
         \o Rep("a", 61) \o <<".", "c">>,
     <<"c">>, <<"b", ".", "c", ":", "8">>, <<"b", ".", "c", "/", "x">>,
     <<"b", ".", "c", "?", "x">>, <<"b", ".", "c", "#", "x">>}

Tokens == {<<>>, <<" ">>, <<"t">>}
TokenFlags == {<<>>, <<Flag("token")>>} \cup {<<Flag("token"), Word(t)>> : t \in Tokens}
DomainFlags(key) ==
    {<<>>, <<Flag(key)>>} \cup {<<Flag(key), Word(d)>> : d \in GoodDomains \cup BadDomains}
ZoneIdFlags == {<<>>, <<Flag("zone-id")>>, <<Flag("zone-id"), Word(<<"z">>)>>}
ForceFlags == {<<>>, <<Flag("force")>>, <<Flag("force"), Word(<<"n", "o">>)>>}
ProxiedFlags == {<<>>, <<Flag("proxied"), Word(<<"f", "a", "l", "s", "e">>)>>}
WorkerFlags == {<<>>, <<Flag("worker-name"), Word(<<"w">>)>>}
RouteFlags ==
    {<<>>, <<Flag("route")>>, <<Flag("route"), Word(PatA)>>,
     <<Flag("route"), Word(PatA), Flag("route"), Word(PatB)>>,
     <<Flag("route"), Word(PatA \o <<",", " ">> \o PatB)>>,
     <<Flag("route"), Word(<<",">>)>>}

Concat(A, B) == {a \o b : a \in A, b \in B}

Argvs ==
    Concat({<<>>, <<Cmd("deploy")>>}, TokenFlags)
    \cup Concat(Concat({<<Cmd("resolve-zone")>>}, TokenFlags), DomainFlags("domain"))
    \cup Concat(Concat(Concat(Concat(Concat({<<Cmd("ensure-dns-a")>>}, {<<>>, <<Flag("token"), Word(<<"t">>)>>}),
             ZoneIdFlags),
                {<<>>} \cup {<<Flag("name"), Word(d)>> :
                     d \in {<<"a", ".", "b">>, <<"A", ".", "b">>, <<"-", "a", ".", "b">>,
                            <<"a", ".", "b", ":", "8">>}}),
             ProxiedFlags), ForceFlags)
    \cup Concat(Concat(Concat(Concat(Concat({<<Cmd("ensure-worker-routes")>>},
             {<<>>, <<Flag("token"), Word(<<"t">>)>>}), ZoneIdFlags), WorkerFlags),
             RouteFlags), ForceFlags)

Envs ==
    [token : {Undefined, Str(<<>>), Str(<<"t">>)}, domain : {Undefined, Str(<<"a", ".", "b">>)},
     force_dns : {Undefined}, force_routes : {Undefined}]

\* What the account holds when the command runs
CliZones == {{}, {[id |-> 1, name |-> <<"b", ".", "c">>, status |-> "active", account |-> "acct"]}}
CliRecords ==
    {{}, {[id |-> 1, type |-> "A", name |-> NameAB, content |-> "203.0.113.9",
           proxied |-> TRUE, ttl |-> 1]}}
CliRoutes ==
    {{}, {[id |-> 1, pattern |-> PatA, script |-> "x"]},
     {[id |-> 1, pattern |-> PatA, script |-> "w"]}}

\* The command ends before it calls an operation: process.exit(2), or an
\* error thrown at the top level, which ends the process with code 1
CliExitEarly ==
    /\ cli.pc = "idle"
    /\ \E argv \in Argvs, env \in Envs :
           /\ Main(argv, env).kind = "exit"
           /\ cli' = CliBegun(argv, env)
    /\ UNCHANGED <<cfVars, dnsVars, routeVars, zoneVars, norm, built>>

\* await resolveZone({ token, domain })
CliResolveZone ==
    /\ cli.pc = "idle"
    /\ \E argv \in Argvs, env \in Envs :
           /\ Main(argv, env).op = "resolve-zone"
           /\ cli' = CliBegun(argv, env)
           /\ zCall' = ZBegin(Main(argv, env).domain)
    /\ UNCHANGED <<zones, cfVars, dnsVars, routeVars, norm, built>>

\* await ensureDnsA({ token, zoneId, recordName: name, ip, proxied, force })
CliEnsureDnsA ==
    /\ cli.pc = "idle"
    /\ \E argv \in Argvs, env \in Envs :
           /\ Main(argv, env).op = "ensure-dns-a"
           /\ cli' = CliBegun(argv, env)
           /\ dnsCall' = [dnsCall EXCEPT !["p"] =
                  [DnsIdle EXCEPT !.pc = "get", !.args = Main(argv, env).dns,
                                  !.pre = dnsRecords]]
    /\ UNCHANGED <<dnsRecords, dnsNextId, cfVars, routeVars, zoneVars, norm, built>>

\* await ensureWorkerRoutes({ token, zoneId, workerName, patterns, force })
CliEnsureWorkerRoutes ==
    /\ cli.pc = "idle"
    /\ \E argv \in Argvs, env \in Envs :
           /\ Main(argv, env).op = "ensure-worker-routes"
           /\ cli' = CliBegun(argv, env)
           /\ rtCall' = [RtIdle EXCEPT !.pc = "get", !.args = Main(argv, env).rt,
                                       !.pre = routes]
    /\ UNCHANGED <<routes, rtNextId, cfVars, dnsVars, zoneVars, norm, built>>

\* The operation has returned or thrown: process.exit(0), or the error
\* thrown through the top level
CliOutcome ==
    CASE cli.op = "resolve-zone" -> zCall.out.kind
      [] cli.op = "ensure-dns-a" -> dnsCall["p"].out.kind
      [] cli.op = "ensure-worker-routes" -> rtCall.out.kind
      [] OTHER -> "none"
CliOpDone ==
    CASE cli.op = "resolve-zone" -> zCall.pc = "done"
      [] cli.op = "ensure-dns-a" -> dnsCall["p"].pc = "done"
      [] cli.op = "ensure-worker-routes" -> rtCall.pc = "done"
      [] OTHER -> FALSE
CliExit ==
    /\ cli.pc = "call"
    /\ CliOpDone
    /\ cli' = IF CliOutcome \in {"ok"} \cup DnsSuccess
              THEN [cli EXCEPT !.pc = "exit", !.code = 0,
                        !.count = IF cli.op = "ensure-worker-routes"
                                  THEN Len(rtCall.args.patterns) ELSE 0]
              ELSE [cli EXCEPT !.pc = "exit", !.code = 1, !.error = CliOutcome]
    /\ UNCHANGED <<cfVars, dnsVars, routeVars, zoneVars, norm, built>>

(***************************************************************************)
(* The configuration resolver (part_000)                                   *)
(***************************************************************************)

AsciiLower ==
    {"a", "b", "c", "d", "e", "f", "g", "h", "i", "j", "k", "l", "m", "n", "o", "p", "q",
     "r", "s", "t", "u", "v", "w", "x", "y", "z"}
AsciiDigits == {"0", "1", "2", "3", "4", "5", "6", "7", "8", "9"}

\* /^[a-z0-9.-]+$/.test(domain) and /^[a-z0-9-]+$/.test(label)
HostnameText(s) ==
    Len(s) > 0 /\ \A i \in DOMAIN s : s[i] \in AsciiLower \cup AsciiDigits \cup {".", "-"}
LabelText(s) ==
    Len(s) > 0 /\ \A i \in DOMAIN s : s[i] \in AsciiLower \cup AsciiDigits \cup {"-"}

\* The body of the loop over the labels, lines 293 to 298: the label passes
ResolverLabelOk(label) ==
    /\ Len(label) > 0
    /\ Len(label) <= 63
    /\ LabelText(label)
    /\ label[1] # "-"
    /\ label[Len(label)] # "-"

\* Lines 284 to 300: the host name once scheme, path and port are excluded
ResolverHostname(input) ==
    IF Len(ToLowerCase(StripTrailingDots(input))) = 0
       \/ ~HostnameText(ToLowerCase(StripTrailingDots(input)))
       \/ ~Includes(ToLowerCase(StripTrailingDots(input)), ".")
       \/ Len(ToLowerCase(StripTrailingDots(input))) > 253
       \/ \E k \in DOMAIN SplitDot(ToLowerCase(StripTrailingDots(input))) :
              ~ResolverLabelOk(SplitDot(ToLowerCase(StripTrailingDots(input)))[k])
    THEN [ok |-> FALSE, domain |-> <<>>]
    ELSE [ok |-> TRUE, domain |-> ToLowerCase(StripTrailingDots(input))]

\* normalizeDomain(raw) of the configuration resolver: ok is FALSE where it throws
RECURSIVE ResolverNormalizeDomain(_)
ResolverNormalizeDomain(raw) ==
    IF Len(raw) = 0 \/ Len(Trim(raw)) = 0 THEN [ok |-> FALSE, domain |-> <<>>]
    ELSE IF IncludesScheme(Trim(raw))
      THEN IF \/ ~UrlParse(Trim(raw)).ok
              \/ UrlParse(Trim(raw)).protocol \notin {<<"h", "t", "t", "p", ":">>,
                                                      <<"h", "t", "t", "p", "s", ":">>}
              \/ ~UrlParse(Trim(raw)).rootPath
              \/ UrlParse(Trim(raw)).search
              \/ UrlParse(Trim(raw)).hash
           THEN [ok |-> FALSE, domain |-> <<>>]
           ELSE ResolverNormalizeDomain(UrlParse(Trim(raw)).hostname)
    ELSE IF \E c \in {"/", "?", "#", ":"} : Includes(Trim(raw), c)
      THEN [ok |-> FALSE, domain |-> <<>>]
    ELSE ResolverHostname(Trim(raw))

\* normalize applied to an input, and applied again to what it returned, by
\* the configuration resolver (resolver) and by deploy/cf-api.mjs (deploy)
ResolverAgain(result) ==
    IF result.ok THEN ResolverNormalizeDomain(result.domain) ELSE [ok |-> FALSE, domain |-> <<>>]
DeployAgain(result) ==
    IF result.ok THEN NormalizeDomain(result.domain) ELSE [ok |-> FALSE, domain |-> <<>>]
NoNorm ==
    [pc |-> "idle", input |-> <<>>,
     resolver |-> [ok |-> FALSE, domain |-> <<>>], resolverAgain |-> [ok |-> FALSE, domain |-> <<>>],
     deploy |-> [ok |-> FALSE, domain |-> <<>>], deployAgain |-> [ok |-> FALSE, domain |-> <<>>]]
Normalized(input) ==
    [pc |-> "done", input |-> input,
     resolver |-> ResolverNormalizeDomain(input),
     resolverAgain |-> ResolverAgain(ResolverNormalizeDomain(input)),
     deploy |-> NormalizeDomain(input),
     deployAgain |-> DeployAgain(NormalizeDomain(input))]

\* The inputs: a scheme or none, a host, and what may follow the host
NormSchemes ==
    {<<>>, <<"h", "t", "t", "p", "s", ":", "/", "/">>, <<"h", "t", "t", "p", ":", "/", "/">>,
     <<"f", "t", "p", ":", "/", "/">>, <<"H", "T", "T", "P", "S", ":", "/", "/">>}
NormHosts ==
    {<<"a", ".", "b">>, <<"A", ".", "b">>, <<"a">>, <<"b", "-", "c", ".", "a">>,
     <<"-", "a", ".", "b">>, <<"a", "-", ".", "b">>, <<"a", ".", ".", "b">>,
     <<"a", "_", "b", ".", "c">>,
     Rep("a", 64) \o <<".", "b">>, Rep("a", 63) \o <<".", "b">>,
     Rep("a", 63) \o <<".">> \o Rep("a", 63) \o <<".">> \o Rep("a", 63) \o <<".">>
         \o Rep("a", 61),
     Rep("a", 63) \o <<".">> \o Rep("a", 63) \o <<".">> \o Rep("a", 63) \o <<".">>
         \o Rep("a", 62)}
NormTails ==
    {<<>>, <<".">>, <<" ", ".">>, <<" ">>, <<":", "8">>, <<":", "8", "/">>, <<"/">>,
     <<"/", "x">>, <<"?", "x">>, <<"#", "x">>}
NormInputs == {s \o h \o t : s \in NormSchemes, h \in NormHosts, t \in NormTails}

NormalizeOne ==
    /\ norm.pc = "idle"
    /\ \E input \in NormInputs : norm' = Normalized(input)
    /\ UNCHANGED <<cfVars, dnsVars, routeVars, zoneVars, cli, built>>

\* slug.replace(/-+$/g, '')
RECURSIVE StripTrailingDashes(_)
StripTrailingDashes(s) ==
    IF Len(s) > 0 /\ s[Len(s)] = "-" THEN StripTrailingDashes(SubSeq(s, 1, Len(s) - 1))
    ELSE s

\* replace(/^-+/, '')
RECURSIVE StripLeadingDashes(_)
StripLeadingDashes(s) ==
    IF Len(s) > 0 /\ s[1] = "-" THEN StripLeadingDashes(Tail(s)) ELSE s

\* The text with its runs of '-' kept
KeepDashes(s) == s

\* replace(/--+/g, '-'), which is replace(/-+/g, '-'): a run of '-' becomes one
\* computed on the two halves of the text, a run that spans both joined to one
JoinDashes(l, r) ==
    IF Len(l) > 0 /\ Len(r) > 0 /\ l[Len(l)] = "-" /\ r[1] = "-" THEN l \o Tail(r)
    ELSE l \o r
RECURSIVE CollapseDashes(_)
CollapseDashes(s) ==
    IF Len(s) < 2 THEN s
    ELSE JoinDashes(CollapseDashes(SubSeq(s, 1, Len(s) \div 2)),
                    CollapseDashes(SubSeq(s, Len(s) \div 2 + 1, Len(s))))

\* slug.slice(0, n) for n >= 0
Slice(s, n) == SubSeq(s, 1, IF n < Len(s) THEN n ELSE Len(s))

\* Math.max(1, availableSlugLen)
AtLeastOne(n) == IF n < 1 THEN 1 ELSE n

\* maxLen less the prefix and the hash, the two dashes forgotten
AvailableWithoutDashes(prefix, hash, maxLen) == maxLen - (Len(prefix) + Len(hash))

\* const availableSlugLen = maxLen - `${prefix}--${hash}`.length
AvailableSlugLen(prefix, hash, maxLen) == maxLen - (Len(prefix) + 2 + Len(hash))

\* buildName(prefix, slug, hash, maxLen)
BuildName(prefix, slug, hash, maxLen) ==
    CollapseDashes(prefix \o <<"-">>
                   \o StripTrailingDashes(Slice(slug, AtLeastOne(AvailableSlugLen(prefix, hash, maxLen))))
                   \o <<"-">> \o hash)

\* buildName's default for maxLen
DefaultMaxLen == 63

\* slugifyDomain(domain)
DashIfOther(c) == IF c \in AsciiLower \cup AsciiDigits \cup {"-"} THEN c ELSE "-"
SlugifyDomain(domain) ==
    IF Len(StripTrailingDashes(StripLeadingDashes(CollapseDashes(
           [i \in DOMAIN domain |-> DashIfOther(ToLowerCase(domain)[i])])))) = 0
    THEN <<"s", "i", "t", "e">>
    ELSE StripTrailingDashes(StripLeadingDashes(CollapseDashes(
           [i \in DOMAIN domain |-> DashIfOther(ToLowerCase(domain)[i])])))

\* const workerName = workerNameOverride || buildName('inkrypt-api', slug, hash)
\* const d1Name = d1NameOverride || buildName('inkrypt', slug, hash)
WorkerPrefix == <<"i", "n", "k", "r", "y", "p", "t", "-", "a", "p", "i">>
D1Prefix == <<"i", "n", "k", "r", "y", "p", "t">>

NoBuilt ==
    [pc |-> "idle", prefix |-> <<>>, slug |-> <<>>, hash |-> <<>>, maxLen |-> 0,
     name |-> <<>>, domain |-> <<>>, workerName |-> <<>>, d1Name |-> <<>>]

\* The inputs of buildName: prefixes, slugs, hashes of 8 hexadecimal digits
\* (shortHash is SHA-256, any such text may come out of it), lengths
Prefixes ==
    {WorkerPrefix, D1Prefix, <<"p">>, <<"p", "-">>, <<"a", "-", "-", "b">>, <<>>}
Slugs ==
    {<<"a">>, <<"-">>, <<"a", "-", "b">>, <<"a", "-", "-", "b">>, <<"-", "a">>,
     Rep("a", 70), Rep("a", 41) \o <<"-", "b">>, Rep("a", 40) \o <<"-", "-", "b", "c">>,
     <<"a", "-">> \o Rep("b", 60)}
Hashes ==
    {<<"0", "1", "2", "3", "a", "b", "c", "d">>, <<"d", "e", "a", "d", "b", "e", "e", "f">>}
MaxLens == {1, 8, 11, 12, 17, 18, 21, 22, 23, 40, 62, DefaultMaxLen, 64}

\* The domains the resolver derives names from: what normalizeDomain returns
\* for a short name, for a name with a '-', and for a name longer than 63
DerivedDomains ==
    {ResolverNormalizeDomain(i).domain :
        i \in {<<"A", ".", "b">>, <<"b", "-", "c", ".", "a">>, Rep("a", 63) \o <<".", "b">>,
               Rep("a", 40) \o <<".">> \o Rep("b", 40) \o <<".", "c">>}}

BuildOne ==
    /\ built.pc = "idle"
    /\ \E prefix \in Prefixes, slug \in Slugs, hash \in Hashes, maxLen \in MaxLens :
           built' = [NoBuilt EXCEPT !.pc = "built", !.prefix = prefix, !.slug = slug,
                                    !.hash = hash, !.maxLen = maxLen,
                                    !.name = BuildName(prefix, slug, hash, maxLen)]
    /\ UNCHANGED <<cfVars, dnsVars, routeVars, zoneVars, cli, norm>>

\* Lines 346 to 353, with no override of the names
DeriveNames ==
    /\ built.pc = "idle"
    /\ \E domain \in DerivedDomains, hash \in Hashes :
           built' = [NoBuilt EXCEPT !.pc = "derived", !.domain = domain,
                                    !.slug = SlugifyDomain(domain), !.hash = hash,
                                    !.maxLen = DefaultMaxLen,
                                    !.workerName = BuildName(WorkerPrefix, SlugifyDomain(domain),
                                                             hash, DefaultMaxLen),
                                    !.d1Name = BuildName(D1Prefix, SlugifyDomain(domain),
                                                         hash, DefaultMaxLen)]
    /\ UNCHANGED <<cfVars, dnsVars, routeVars, zoneVars, cli, norm>>

(***************************************************************************)
(* Specifications                                                          *)
(***************************************************************************)

\* cf alone, against every response of the universe
InitCf ==
    /\ cfReq = NoReq /\ cfResp = NoResp /\ cfOut = NoCf
    /\ dnsRecords = {} /\ dnsNextId = 1 /\ dnsCall = DnsCalls0
    /\ routes = {} /\ rtNextId = 1 /\ rtCall = RtIdle
    /\ zones = {} /\ zCall = ZIdle
    /\ cli = CliIdle /\ norm = NoNorm /\ built = NoBuilt

SpecCf == InitCf /\ [][CfCall]_vars

\* ensureDnsA invoked by one caller, one invocation after the other, with no
\* other writer of the zone
InitDns ==
    /\ cfReq = NoReq /\ cfResp = NoResp /\ cfOut = NoCf
    /\ dnsRecords \in DnsStores /\ dnsNextId = Cardinality(dnsRecords) + 1
    /\ dnsCall = DnsCalls0
    /\ routes = {} /\ rtNextId = 1 /\ rtCall = RtIdle
    /\ zones = {} /\ zCall = ZIdle
    /\ cli = CliIdle /\ norm = NoNorm /\ built = NoBuilt

NextDns ==
    \/ DnsStart("p")
    \/ DnsRerun("p")
    \/ DnsGet("p")
    \/ DnsPost("p")
    \/ DnsPut("p")

SpecDns == InitDns /\ [][NextDns]_vars

\* ensureWorkerRoutes invoked, then invoked again with the same worker and
\* patterns; between invocations the operator may resolve a conflict
InitRoutes ==
    /\ cfReq = NoReq /\ cfResp = NoResp /\ cfOut = NoCf
    /\ dnsRecords = {} /\ dnsNextId = 1 /\ dnsCall = DnsCalls0
    /\ routes \in RouteStores /\ rtNextId = Cardinality(routes) + 1
    /\ rtCall = RtIdle
    /\ zones = {} /\ zCall = ZIdle
    /\ cli = CliIdle /\ norm = NoNorm /\ built = NoBuilt

NextRoutes ==
    \/ RtStart
    \/ RtRerun
    \/ RtRetry
    \/ RtGet
    \/ RtCreate
    \/ RtSkip
    \/ RtConflict
    \/ RtUpdate
    \/ ExtRemove
    \/ ExtRebind

SpecRoutes == InitRoutes /\ [][NextRoutes]_vars

\* resolveZone invoked against a fixed set of zones
InitZones ==
    /\ cfReq = NoReq /\ cfResp = NoResp /\ cfOut = NoCf
    /\ dnsRecords = {} /\ dnsNextId = 1 /\ dnsCall = DnsCalls0
    /\ routes = {} /\ rtNextId = 1 /\ rtCall = RtIdle
    /\ zones \in ZoneStores /\ zCall = ZIdle
    /\ cli = CliIdle /\ norm = NoNorm /\ built = NoBuilt

NextZones == ZStart \/ ZQuery

SpecZones == InitZones /\ [][NextZones]_vars

\* One run of the command, from argv and the environment to the exit code
InitCli ==
    /\ cfReq = NoReq /\ cfResp = NoResp /\ cfOut = NoCf
    /\ dnsRecords \in CliRecords /\ dnsNextId = Cardinality(dnsRecords) + 1
    /\ dnsCall = DnsCalls0
    /\ routes \in CliRoutes /\ rtNextId = Cardinality(routes) + 1
    /\ rtCall = RtIdle
    /\ zones \in CliZones /\ zCall = ZIdle
    /\ cli = CliIdle /\ norm = NoNorm /\ built = NoBuilt

NextCli ==
    \/ CliExitEarly
    \/ CliResolveZone
    \/ CliEnsureDnsA
    \/ CliEnsureWorkerRoutes
    \/ ZQuery
    \/ DnsGet("p")
    \/ DnsPost("p")
    \/ DnsPut("p")
    \/ RtGet
    \/ RtCreate
    \/ RtSkip
    \/ RtConflict
    \/ RtUpdate
    \/ CliExit

SpecCli == InitCli /\ [][NextCli]_vars

\* normalizeDomain applied to an input, then to its own result
InitNormalize ==
    /\ cfReq = NoReq /\ cfResp = NoResp /\ cfOut = NoCf
    /\ dnsRecords = {} /\ dnsNextId = 1 /\ dnsCall = DnsCalls0
    /\ routes = {} /\ rtNextId = 1 /\ rtCall = RtIdle
    /\ zones = {} /\ zCall = ZIdle
    /\ cli = CliIdle /\ norm = NoNorm /\ built = NoBuilt

SpecNormalize == InitNormalize /\ [][NormalizeOne]_vars

\* buildName applied to its inputs, and the names derived from a domain
InitNames ==
    /\ cfReq = NoReq /\ cfResp = NoResp /\ cfOut = NoCf
    /\ dnsRecords = {} /\ dnsNextId = 1 /\ dnsCall = DnsCalls0
    /\ routes = {} /\ rtNextId = 1 /\ rtCall = RtIdle
    /\ zones = {} /\ zCall = ZIdle
    /\ cli = CliIdle /\ norm = NoNorm /\ built = NoBuilt

NextNames == BuildOne \/ DeriveNames

SpecNames == InitNames /\ [][NextNames]_vars

\* ensureDnsA invoked by two callers at once for one name, in a zone that
\* holds no record: the requests of the two interleave in any order
InitDnsRace ==
    /\ cfReq = NoReq /\ cfResp = NoResp /\ cfOut = NoCf
    /\ dnsRecords = {} /\ dnsNextId = 1
    /\ dnsCall = DnsCalls0
    /\ routes = {} /\ rtNextId = 1 /\ rtCall = RtIdle
    /\ zones = {} /\ zCall = ZIdle
    /\ cli = CliIdle /\ norm = NoNorm /\ built = NoBuilt

NextDnsRace ==
    \/ DnsStartRace("p")
    \/ DnsStartRace("q")
    \/ DnsGet("p")
    \/ DnsGet("q")
    \/ DnsPost("p")
    \/ DnsPost("q")
    \/ DnsPut("p")
    \/ DnsPut("q")

SpecDnsRace == InitDnsRace /\ [][NextDnsRace]_vars

\* ensureDnsA invoked by one caller for any name, one invocation after the
\* other, in a zone that holds at most one record for a name
InitDnsSeq ==
    /\ cfReq = NoReq /\ cfResp = NoResp /\ cfOut = NoCf
    /\ dnsRecords \in {S \in DnsStores : OneRecordPerName(S)}
    /\ dnsNextId = Cardinality(dnsRecords) + 1
    /\ dnsCall = DnsCalls0
    /\ routes = {} /\ rtNextId = 1 /\ rtCall = RtIdle
    /\ zones = {} /\ zCall = ZIdle
    /\ cli = CliIdle /\ norm = NoNorm /\ built = NoBuilt

NextDnsSeq ==
    \/ DnsStartAny("p")
    \/ DnsGet("p")
    \/ DnsPost("p")
    \/ DnsPut("p")

SpecDnsSeq == InitDnsSeq /\ [][NextDnsSeq]_vars

(***************************************************************************)
(* Properties                                                              *)
(***************************************************************************)

\* The invocation of ensureDnsA under study, and what the claims speak of
P == dnsCall["p"]
DnsDone == P.pc = "done"

SameName(a, b) == ToLowerCase(a) = ToLowerCase(b)
RecordsFor(records, name) == {r \in records : SameName(r.name, name)}
Fields(r) ==
    [type |-> r.type, name |-> r.name, content |-> r.content, ttl |-> r.ttl,
     proxied |-> r.proxied]
WantedProxied(args) == args.proxied # "false"
Wanted(args) ==
    [type |-> "A", name |-> args.recordName, content |-> args.ip, ttl |-> 1,
     proxied |-> WantedProxied(args)]
Agrees(r, args) ==
    /\ r.type = "A"
    /\ SameName(r.name, args.recordName)
    /\ r.content = args.ip
    /\ r.proxied = WantedProxied(args)

\* The action reported tells what the zone held for the name
DnsReports ==
    LET before == RecordsFor(P.pre, P.args.recordName)
    IN  /\ P.out.kind = "created" <=> before = {}
        /\ P.out.kind = "unchanged" <=> \E r \in before : Agrees(r, P.args)
        /\ P.out.kind = "updated" <=> \E r \in before : ~Agrees(r, P.args) /\ P.args.force

DnsReturnedFromAtMostOne ==
    /\ DnsDone
    /\ P.out.kind \in DnsSuccess
    /\ Cardinality(RecordsFor(P.pre, P.args.recordName)) <= 1

\* C1 as stated: from at most one record for recordName, a call that returns
\* leaves exactly one record for the name, equal to the desired record in
\* every field (type A, name, content, ttl 1, proxied), and reports created,
\* unchanged or updated according to what it found.
C1_Original ==
    DnsReturnedFromAtMostOne =>
        /\ Cardinality(RecordsFor(dnsRecords, P.args.recordName)) = 1
        /\ \A r \in RecordsFor(dnsRecords, P.args.recordName) : Fields(r) = Wanted(P.args)
        /\ DnsReports

\* C1 amended: from at most one record for recordName, a call that returns
\* leaves exactly one record for the name, the one whose id it reports; that
\* record agrees with the desired one on type, name (whatever the case),
\* content and proxied; it is the desired record in every field, ttl 1 and
\* the name as given included, after created or updated, and it is the record
\* found, untouched, after unchanged; the action is reported as stated.
C1_EnsureDnsA ==
    DnsReturnedFromAtMostOne =>
        /\ \E r \in dnsRecords :
               /\ RecordsFor(dnsRecords, P.args.recordName) = {r}
               /\ r.id = P.out.id
               /\ Agrees(r, P.args)
               /\ P.out.kind \in {"created", "updated"} => Fields(r) = Wanted(P.args)
               /\ P.out.kind = "unchanged" => r \in P.pre
        /\ DnsReports

\* An unchanged record that keeps a ttl of its own
C1_Witness ==
    /\ DnsReturnedFromAtMostOne
    /\ P.out.kind = "unchanged"
    /\ \E r \in RecordsFor(dnsRecords, P.args.recordName) : r.ttl = 300

\* C2: the invocation repeated right after a successful one, with the same
\* arguments and either value of force, issues no POST and no PUT, and reports
\* unchanged whenever the control plane answers its lookup.
C2_DnsIdempotent ==
    P.rerun =>
        /\ P.posts = 0
        /\ P.puts = 0
        /\ (DnsDone /\ P.out.kind # "ApiError") => P.out.kind = "unchanged"

C2_Witness ==
    /\ P.rerun
    /\ DnsDone
    /\ P.after = "updated"
    /\ P.args.force
    /\ P.out.kind = "unchanged"

\* C3: with force=false no PUT is ever issued; and when the one record of the
\* name differs from the desired one in type, name, content or proxied, the
\* call fails with DnsConflict (or with the lookup's own error when the
\* control plane refuses the lookup), issues no write and leaves the records
\* as they were.
C3_DnsConflict ==
    /\ ~P.args.force => P.puts = 0
    /\ (/\ DnsDone
        /\ ~P.args.force
        /\ \E r \in P.pre : /\ RecordsFor(P.pre, P.args.recordName) = {r}
                            /\ ~Agrees(r, P.args))
       => /\ \/ P.out.kind = "DnsConflict"
             \/ P.out.kind = "ApiError" /\ Len(P.existing) = 0
          /\ P.posts = 0
          /\ P.puts = 0
          /\ dnsRecords = P.pre

C3_Witness ==
    /\ DnsDone
    /\ P.out.kind = "DnsConflict"
    /\ \E r \in P.pre : RecordsFor(P.pre, P.args.recordName) = {r} /\ r.content # P.args.ip

\* C4: when the lookup returns more than one record the call fails with
\* AmbiguousRecord, with or without force, issues no write and leaves the
\* records as they were; a zone that holds more than one record for the name
\* makes every answered call end so.
C4_Ambiguous ==
    /\ (DnsDone /\ Len(P.existing) > 1)
       => /\ P.out.kind = "AmbiguousRecord"
          /\ P.posts = 0
          /\ P.puts = 0
          /\ dnsRecords = P.pre
    /\ (DnsDone /\ Cardinality(RecordsFor(P.pre, P.args.recordName)) > 1)
       => P.out.kind \in {"AmbiguousRecord", "ApiError"}

C4_Witness ==
    /\ DnsDone
    /\ P.args.force
    /\ Len(P.existing) > 1
    /\ P.out.kind = "AmbiguousRecord"

\* The invocation of ensureWorkerRoutes under study
R == rtCall
RtDone == R.pc = "done"

SameClass(a, b) == ToLowerCase(a) = ToLowerCase(b)
Holders(rs, pattern) == {r \in rs : SameClass(r.pattern, pattern)}
Holder(rs, pattern) ==
    CHOOSE r \in Holders(rs, pattern) : \A q \in Holders(rs, pattern) : r.id <= q.id
Free(rs, pattern) == Holders(rs, pattern) = {}
Mine(rs, pattern, w) == ~Free(rs, pattern) /\ Holder(rs, pattern).script = w
Foreign(rs, pattern, w) == ~Free(rs, pattern) /\ Holder(rs, pattern).script # w
WritesAt(k) == {w \in R.writes : w[2] = k}

\* C5: when the call returns, every pattern of the list is bound to the
\* worker; a pattern that had no route has one created by POST, a pattern
\* already bound to the worker keeps its route with no request sent for it,
\* and a pattern bound to another script is rebound by PUT, which only a call
\* with force=true does. Patterns are compared whatever the case of their
\* letters.
C5_RoutesConverge ==
    (RtDone /\ R.out.kind = "ok") =>
        \A k \in DOMAIN R.args.patterns :
            LET pt == R.args.patterns[k]
                w == R.args.workerName
            IN  /\ \E r \in routes : SameClass(r.pattern, pt) /\ r.script = w
                /\ Free(R.pre, pt) =>
                       /\ <<"POST", k>> \in R.writes
                       /\ \E r \in routes :
                              /\ r.pattern = pt
                              /\ r.script = w
                              /\ \A q \in R.pre : q.id # r.id
                /\ Mine(R.pre, pt, w) =>
                       /\ Holder(R.pre, pt) \in routes
                       /\ WritesAt(k) = {}
                /\ Foreign(R.pre, pt, w) =>
                       /\ R.args.force
                       /\ WritesAt(k) = {<<"PUT", k>>}
                       /\ \E r \in routes :
                              /\ r.id = Holder(R.pre, pt).id
                              /\ r.script = w

\* A call that creates one route and rebinds another, the second written
\* in another case than the pattern asked for
C5_Witness ==
    /\ RtDone
    /\ R.out.kind = "ok"
    /\ R.mode = "fresh"
    /\ \E k, j \in DOMAIN R.args.patterns :
           /\ <<"POST", k>> \in R.writes
           /\ <<"PUT", j>> \in R.writes
           /\ Holder(R.pre, R.args.patterns[j]).pattern # R.args.patterns[j]

\* C6: the call repeated after a successful one, the routes untouched since,
\* sends one GET and no POST or PUT, whatever force is.
C6_RoutesIdempotent ==
    R.mode = "rerun" =>
        /\ R.writes = {}
        /\ R.gets <= 1
        /\ RtDone => R.gets = 1

C6_Witness ==
    /\ R.mode = "rerun"
    /\ RtDone
    /\ R.out.kind = "ok"
    /\ R.args.force
    /\ R.before = 2

\* The first pattern of the list that another script holds, 0 when none does
FirstForeign(rs, args) ==
    LET ks == {k \in DOMAIN args.patterns : Foreign(rs, args.patterns[k], args.workerName)}
    IN  IF ks = {} THEN 0 ELSE CHOOSE k \in ks : \A j \in ks : k <= j

\* C7: with force=false no PUT is ever sent; when some pattern is held by
\* another script the call fails at the first such pattern with RouteConflict
\* naming that script (or with the error of a request the control plane
\* refused before that), nothing is undone: the routes found are all still
\* there and the routes created for the earlier patterns stay, as the call
\* leaves them and before anyone else touches the routes; RouteConflict is
\* raised in no other case.
C7_RouteConflict ==
    /\ ~R.args.force => \A w \in R.writes : w[1] # "PUT"
    /\ (RtDone /\ ~R.touched /\ ~R.args.force /\ FirstForeign(R.pre, R.args) > 0) =>
           LET k == FirstForeign(R.pre, R.args)
           IN  /\ R.out.kind \in {"RouteConflict", "ApiError"}
               /\ \A w \in R.writes : w[1] = "POST" /\ w[2] < k
               /\ R.pre \subseteq routes
               /\ R.out.kind = "RouteConflict" =>
                      /\ R.out.at = k
                      /\ R.out.owner = Holder(R.pre, R.args.patterns[k]).script
                      /\ \A j \in 1..(k - 1) :
                             Free(R.pre, R.args.patterns[j]) =>
                                 \E r \in routes \ R.pre :
                                     /\ r.pattern = R.args.patterns[j]
                                     /\ r.script = R.args.workerName
    /\ (RtDone /\ R.out.kind = "RouteConflict") =>
           ~R.args.force /\ FirstForeign(R.pre, R.args) > 0

\* A conflict at the second pattern, after the first was created
C7_Witness ==
    /\ RtDone
    /\ R.out.kind = "RouteConflict"
    /\ R.out.at = 2
    /\ R.writes = {<<"POST", 1>>}
    /\ Cardinality(routes) = Cardinality(R.pre) + 1

\* The conflict no longer stands: force is given, or no pattern of the list
\* is held by another script
Resolved(rs, args) == args.force \/ FirstForeign(rs, args) = 0

\* C8 as stated: after a call failed with RouteConflict part-way, at a
\* pattern that is not the first of the list, the call made again once the conflict is resolved succeeds, sends no request for a
\* pattern whose route was already right, and leaves exactly one route for
\* each pattern of the list, bound to the worker.
C8_RetryConverges ==
    (/\ R.mode = "retry"
     /\ R.before > 1
     /\ RtDone
     /\ Resolved(R.pre, R.args)
     /\ R.out.kind # "ApiError") =>
        /\ R.out.kind = "ok"
        /\ \A k \in DOMAIN R.args.patterns :
               /\ Mine(R.pre, R.args.patterns[k], R.args.workerName) => WritesAt(k) = {}
               /\ \E r \in routes :
                      /\ Holders(routes, R.args.patterns[k]) = {r}
                      /\ r.script = R.args.workerName

\* The same, for lists that name no pattern twice
C8_WithoutRepeats ==
    (\A k, j \in DOMAIN R.args.patterns :
         SameClass(R.args.patterns[k], R.args.patterns[j]) => k = j)
    => C8_RetryConverges

\* The invocation of resolveZone under study
Z == zCall
ZDone == Z.pc = "done"

DotCount(s) == Cardinality({i \in DOMAIN s : s[i] = "."})
FirstDot(s) == CHOOSE i \in DOMAIN s : s[i] = "." /\ \A j \in 1..(i - 1) : s[j] # "."
RECURSIVE DropLabels(_, _)
DropLabels(s, n) ==
    IF n = 0 \/ DotCount(s) = 0 THEN s
    ELSE DropLabels(SubSeq(s, FirstDot(s) + 1, Len(s)), n - 1)
ActiveZones(name) == {z \in zones : z.name = name /\ z.status = "active"}

\* C9: the names queried are, in order, the normalized domain and then what
\* is left of it as its leading labels are dropped one by one, each with two
\* labels or more; a query follows only queries that found no active zone of
\* their name; the zone returned is an active zone whose name is the last
\* name queried, hence the longest suffix of the domain that is an active
\* zone; and, the domain being valid and the control plane answering, the
\* call fails with ZoneNotFound exactly when no suffix of two labels or more
\* is the name of an active zone.
C9_ResolveZone ==
    /\ \A i \in DOMAIN Z.queried :
           /\ Z.queried[i] = DropLabels(Z.normalized, i - 1)
           /\ DotCount(Z.queried[i]) >= 1
           /\ i < Len(Z.queried) => ActiveZones(Z.queried[i]) = {}
    /\ (ZDone /\ Z.out.kind = "ok") =>
           /\ Len(Z.queried) >= 1
           /\ Z.out.zone_name = Z.queried[Len(Z.queried)]
           /\ \E z \in ActiveZones(Z.out.zone_name) :
                  Z.out.zone_id = z.id /\ Z.out.account_id = z.account
    /\ (ZDone /\ Z.out.kind \notin {"ApiError", "InvalidDomain"}) =>
           (Z.out.kind = "ZoneNotFound"
               <=> \A n \in 0..(DotCount(Z.normalized) - 1) :
                       ActiveZones(DropLabels(Z.normalized, n)) = {})

\* The third candidate is the zone, while a zone of the first candidate's
\* name exists that is not active
C9_Witness ==
    /\ ZDone
    /\ Z.out.kind = "ok"
    /\ Len(Z.queried) = 3
    /\ \E z \in zones : z.name = Z.queried[1] /\ z.status # "active"

\* The call of cf under study: the request, the response, the outcome
CfCalled == cfResp.status # 0
IsEnvelope(body) == body.text = "json" /\ body.data.kind = "object"
StatusFails == cfResp.status < 200 \/ cfResp.status > 299
EnvelopeFails == IsEnvelope(cfResp.body) /\ cfResp.body.data.success = "false"
CfRaised ==
    /\ cfOut.threw
    /\ cfOut.error = "CloudflareApiError"
    /\ cfOut.status = cfResp.status
    /\ cfOut.url.path = cfReq.path
    /\ DOMAIN cfOut.url.query = {k \in DOMAIN cfReq.query : cfReq.query[k].kind # "undefined"}
    /\ \A k \in DOMAIN cfOut.url.query : cfOut.url.query[k] = cfReq.query[k]
    /\ cfOut.value = Undefined
CfReturned ==
    /\ ~cfOut.threw
    /\ cfOut.value = IF IsEnvelope(cfResp.body) THEN cfResp.body.data.result ELSE Undefined

\* C10 as stated: cf raises an ApiError carrying the status and the URL on
\* every response whose status is not 2xx, or whose envelope has
\* success=false, or whose body is not valid JSON, the empty body being no
\* valid JSON; on every other response it returns the result of the envelope.
C10_Original ==
    CfCalled =>
        IF StatusFails \/ EnvelopeFails \/ cfResp.body.text # "json"
        THEN CfRaised
        ELSE CfReturned

\* C10 amended: cf raises an ApiError carrying the status and the URL on every
\* response whose status is not 2xx, or whose envelope has success=false, or
\* whose body is not empty and is not valid JSON, and returns no value then;
\* on every other response it returns the result of the envelope, which is
\* undefined when the body is empty or holds no envelope with a result.
C10_Cf ==
    CfCalled =>
        IF StatusFails \/ EnvelopeFails \/ cfResp.body.text = "garbage"
        THEN CfRaised
        ELSE CfReturned

\* A 2xx response refused for its envelope
C10_Witness ==
    /\ CfCalled
    /\ cfResp.status = 200
    /\ EnvelopeFails
    /\ cfOut.threw

\* The run of the command under study
Blank(s) == \A i \in DOMAIN s : s[i] = " "
TokenWords(argv) ==
    {argv[i + 1].word : i \in {j \in 1..(Len(argv) - 1) :
                                  argv[j] = Flag("token") /\ "word" \in DOMAIN argv[j + 1]}}
TokenByFlag(argv) == \E s \in TokenWords(argv) : ~Blank(s)
TokenByEnv(env) == env.token.kind = "string" /\ ~Blank(env.token.s)
BareTokenFlag(argv) ==
    \E j \in DOMAIN argv :
        /\ argv[j] = Flag("token")
        /\ j = Len(argv) \/ "word" \notin DOMAIN argv[j + 1]
ControlPlaneCommands ==
    {Cmd("resolve-zone"), Cmd("ensure-dns-a"), Cmd("ensure-worker-routes")}
UsesControlPlane(argv) == Len(argv) > 0 /\ argv[1] \in ControlPlaneCommands
CliRequests ==
    Len(zCall.queried) + dnsCall["p"].gets + dnsCall["p"].posts + dnsCall["p"].puts
        + rtCall.gets + Cardinality(rtCall.writes)
CliRequesting ==
    \/ zCall.pc = "query"
    \/ dnsCall["p"].pc \in {"get", "post", "put"}
    \/ rtCall.pc \in {"get", "loop"}
NoRequest == CliRequests = 0 /\ ~CliRequesting

\* C11 as stated: a control-plane command given no credential by flag or by
\* environment, or a blank one, fails with MissingCredential before any
\* request is issued; and no request is issued without a bearer credential.
C11_MissingCredential ==
    /\ (/\ cli.pc # "idle"
        /\ UsesControlPlane(cli.argv)
        /\ ~TokenByFlag(cli.argv)
        /\ ~TokenByEnv(cli.env))
       => /\ cli.pc = "exit"
          /\ cli.error = "MissingCredential"
          /\ cli.code # 0
          /\ NoRequest
    /\ ~NoRequest => ~Blank(cli.token)

\* The same, for runs whose --token flag, when given, is followed by a value
C11_WithTokenValue ==
    ~BareTokenFlag(cli.argv) => C11_MissingCredential

\* --token with no value and no token in the environment: a request is sent
C11_BareFlagWitness ==
    /\ BareTokenFlag(cli.argv)
    /\ ~TokenByEnv(cli.env)
    /\ CliRequests > 0
    /\ cli.token = <<"t", "r", "u", "e">>

\* The grammar of a normalized domain, read on a host name as given
GrammarLetters ==
    {"a", "b", "c", "d", "e", "f", "g", "h", "i", "j", "k", "l", "m", "n", "o", "p", "q",
     "r", "s", "t", "u", "v", "w", "x", "y", "z"}
GrammarDigits == {"0", "1", "2", "3", "4", "5", "6", "7", "8", "9"}
LabelChars == GrammarLetters \cup GrammarDigits \cup {"-"}
DotsOf(s) == {i \in DOMAIN s : s[i] = "."}
\* The labels of s: what lies between two dots, or a dot and an end
LabelBounds(s) ==
    {<<i, j>> \in ({0} \cup DotsOf(s)) \X (DotsOf(s) \cup {Len(s) + 1}) :
        i < j /\ \A k \in DotsOf(s) : ~(i < k /\ k < j)}
LabelsOf(s) == {SubSeq(s, b[1] + 1, b[2] - 1) : b \in LabelBounds(s)}
LabelOk(l) ==
    /\ Len(l) >= 1
    /\ Len(l) <= 63
    /\ \A i \in DOMAIN l : l[i] \in LabelChars
    /\ l[1] # "-"
    /\ l[Len(l)] # "-"
IsNormalizedDomain(s) ==
    /\ Len(s) <= 253
    /\ DotsOf(s) # {}
    /\ \A l \in LabelsOf(s) : LabelOk(l)

\* The domain words of the command line
DomainWords(argv) ==
    {argv[i + 1].word : i \in {j \in 1..(Len(argv) - 1) :
                                  /\ argv[j] \in {Flag("domain"), Flag("name")}
                                  /\ "word" \in DOMAIN argv[j + 1]}}
DomainCommands == {Cmd("resolve-zone"), Cmd("ensure-dns-a")}
RunsWithBadDomain ==
    /\ cli.pc # "idle"
    /\ Len(cli.argv) > 0
    /\ cli.argv[1] \in DomainCommands
    /\ cli.error # "MissingCredential"
    /\ \E d \in DomainWords(cli.argv) : d \in BadDomains /\ ~IsNormalizedDomain(d)

\* C12 as stated: resolve-zone and ensure-dns-a, given a domain that breaks a
\* rule of the grammar (a character outside [a-z0-9.-], an empty label, a
\* label of more than 63 characters or with '-' at an end, more than 253
\* characters, no dot, a port, a path, a query, a fragment), fail with
\* InvalidDomain and send no request.
C12_InvalidDomain ==
    RunsWithBadDomain =>
        /\ cli.pc = "exit"
        /\ cli.error = "InvalidDomain"
        /\ NoRequest

\* The same, for the rules deploy/cf-api.mjs does enforce: a dot, and no
\* port, path, query or fragment
C12_EnforcedRules ==
    (\A d \in DomainWords(cli.argv) :
         DotsOf(d) = {} \/ \E i \in DOMAIN d : d[i] \in {":", "/", "?", "#"})
    => C12_InvalidDomain

\* A label that starts with '-' reaches the control plane and a zone is found
C12_BadLabelWitness ==
    /\ RunsWithBadDomain
    /\ cli.argv[1] = Cmd("resolve-zone")
    /\ <<"-", "a", ".", "b", ".", "c">> \in DomainWords(cli.argv)
    /\ cli.pc = "exit"
    /\ cli.code = 0

\* An input of normalize read as text: the scheme before "://", the
\* authority after it up to the path, the host before the port, the path
SchemeMarks(s) ==
    {i \in 1..(Len(s) - 2) : s[i] = ":" /\ s[i + 1] = "/" /\ s[i + 2] = "/"}
SchemeMark(s) ==
    IF SchemeMarks(s) = {} THEN 0
    ELSE CHOOSE i \in SchemeMarks(s) : \A j \in SchemeMarks(s) : i <= j
SchemeText(s) == SubSeq(s, 1, SchemeMark(s) - 1)
AfterScheme(s) == IF SchemeMark(s) = 0 THEN s ELSE SubSeq(s, SchemeMark(s) + 3, Len(s))
FirstIn(s, cs) ==
    IF \E i \in DOMAIN s : s[i] \in cs
    THEN CHOOSE i \in DOMAIN s : s[i] \in cs /\ \A j \in 1..(i - 1) : s[j] \notin cs
    ELSE Len(s) + 1
AuthorityText(s) == SubSeq(AfterScheme(s), 1, FirstIn(AfterScheme(s), {"/", "?", "#"}) - 1)
HostText(s) == SubSeq(AuthorityText(s), 1, FirstIn(AuthorityText(s), {":"}) - 1)
PathText(s) ==
    SubSeq(AfterScheme(s), FirstIn(AfterScheme(s), {"/"}),
           FirstIn(AfterScheme(s), {"?", "#"}) - 1)
HasPort(s) ==
    \E i \in 1..(Len(AuthorityText(s)) - 1) :
        AuthorityText(s)[i] = ":" /\ AuthorityText(s)[i + 1] \in GrammarDigits
HasPath(s) == Len(PathText(s)) > 1
HasOtherScheme(s) ==
    /\ SchemeMark(s) > 0
    /\ ToLowerCase(SchemeText(s)) \notin {<<"h", "t", "t", "p">>, <<"h", "t", "t", "p", "s">>}
HasSingleLabel(s) ==
    \A i \in DotsOf(HostText(s)) :
        \A j \in (i + 1)..Len(HostText(s)) : HostText(s)[j] \in {".", " "}
HasLongLabel(s) == \E l \in LabelsOf(HostText(s)) : Len(l) > 63
InRejectionSet(s) ==
    HasPort(s) \/ HasPath(s) \/ HasOtherScheme(s) \/ HasSingleLabel(s) \/ HasLongLabel(s)

\* Whatever the configuration resolver's normalize returns is a normalized domain
NormalizeReturnsNormalized ==
    (norm.pc = "done" /\ norm.resolver.ok) => IsNormalizedDomain(norm.resolver.domain)

\* C13 as stated: normalize of the configuration resolver fails on every
\* input that holds a port, a path, a scheme other than http and https, a
\* host of one label or a label of more than 63 characters; and what it
\* returns is lower case, without a trailing dot, with a dot, of labels of 1
\* to 63 characters of [a-z0-9-] with no '-' at an end, and of 253
\* characters at most.
C13_Normalize ==
    /\ (norm.pc = "done" /\ InRejectionSet(norm.input)) => ~norm.resolver.ok
    /\ NormalizeReturnsNormalized

\* The same, for inputs without a scheme
C13_HostNames ==
    SchemeMark(norm.input) = 0 => C13_Normalize

\* A URL with a port is accepted and the port dropped
C13_PortWitness ==
    /\ norm.pc = "done"
    /\ norm.input = <<"h", "t", "t", "p", "s", ":", "/", "/", "a", ".", "b", ":", "8">>
    /\ norm.resolver.ok
    /\ norm.resolver.domain = <<"a", ".", "b">>

\* C14 as stated: for every input normalize accepts, normalize applied to
\* the value returned succeeds and returns that value again; normalize is
\* normalizeDomain of the configuration resolver and of deploy/cf-api.mjs.
C14_NormalizeIdempotent ==
    norm.pc = "done" =>
        /\ norm.resolver.ok =>
               norm.resolverAgain.ok /\ norm.resolverAgain.domain = norm.resolver.domain
        /\ norm.deploy.ok =>
               norm.deployAgain.ok /\ norm.deployAgain.domain = norm.deploy.domain

\* The same, for the configuration resolver alone
C14_ResolverIdempotent ==
    (norm.pc = "done" /\ norm.resolver.ok) =>
        norm.resolverAgain.ok /\ norm.resolverAgain.domain = norm.resolver.domain

\* deploy/cf-api.mjs returns "a.b " for "a.b ." and "a.b" for "a.b "
C14_DeployWitness ==
    /\ norm.pc = "done"
    /\ norm.input = <<"a", ".", "b", " ", ".">>
    /\ norm.deploy.ok
    /\ norm.deploy.domain = <<"a", ".", "b", " ">>
    /\ norm.deployAgain.domain = <<"a", ".", "b">>

\* The least length buildName can keep to: the prefix, two dashes, one
\* character of the slug and the hash
LeastLen(prefix, hash) == Len(prefix) + Len(hash) + 3

\* C15 as stated: for every prefix, non-empty slug, hash of 8 hexadecimal
\* digits and maxLen, buildName returns at most maxLen characters; the worker
\* name and the database name derived from a domain have at most 63.
C15_Original ==
    /\ (built.pc = "built" /\ Len(built.slug) > 0) => Len(built.name) <= built.maxLen
    /\ built.pc = "derived" => Len(built.workerName) <= 63 /\ Len(built.d1Name) <= 63

\* C15 amended: for every prefix, non-empty slug, hash of 8 hexadecimal
\* digits and every maxLen of at least the length of the prefix plus 11,
\* buildName returns at most maxLen characters; for a smaller maxLen it
\* returns at most the length of the prefix plus 11, one character of the
\* slug being always kept; the worker name and the database name derived
\* from a domain have at most 63 characters.
C15_BuildNameLength ==
    /\ (built.pc = "built" /\ Len(built.slug) > 0) =>
           /\ built.maxLen >= LeastLen(built.prefix, built.hash) =>
                  Len(built.name) <= built.maxLen
           /\ Len(built.name) <= LeastLen(built.prefix, built.hash)
                  \/ Len(built.name) <= built.maxLen
    /\ built.pc = "derived" => Len(built.workerName) <= 63 /\ Len(built.d1Name) <= 63

\* A slug cut to fit: the worker's prefix, a slug of 70 characters, 63 in all
C15_Witness ==
    /\ built.pc = "built"
    /\ built.prefix = WorkerPrefix
    /\ built.maxLen = 63
    /\ Len(built.slug) = 70
    /\ Len(built.name) = 63

\* C16 as stated: for every prefix, slug and hash of 8 hexadecimal digits,
\* what buildName returns ends with '-' and the whole hash, begins with the
\* prefix, and holds no two '-' in a row.
C16_Original ==
    built.pc = "built" =>
        /\ Len(built.name) >= Len(built.hash) + 1
        /\ SubSeq(built.name, Len(built.name) - Len(built.hash), Len(built.name))
               = <<"-">> \o built.hash
        /\ Len(built.name) >= Len(built.prefix)
        /\ SubSeq(built.name, 1, Len(built.prefix)) = built.prefix
        /\ \A i \in 1..(Len(built.name) - 1) : ~(built.name[i] = "-" /\ built.name[i + 1] = "-")

\* C16 amended: for every prefix, slug and hash of 8 hexadecimal digits,
\* what buildName returns ends with '-' and the whole hash and holds no two
\* '-' in a row; it begins with the prefix when the prefix itself holds no
\* two '-' in a row (a run of '-' in the prefix is collapsed like any other).
C16_HashSuffix ==
    built.pc = "built" =>
        /\ Len(built.name) >= Len(built.hash) + 1
        /\ SubSeq(built.name, Len(built.name) - Len(built.hash), Len(built.name))
               = <<"-">> \o built.hash
        /\ \A i \in 1..(Len(built.name) - 1) : ~(built.name[i] = "-" /\ built.name[i + 1] = "-")
        /\ (\A i \in 1..(Len(built.prefix) - 1) :
                ~(built.prefix[i] = "-" /\ built.prefix[i + 1] = "-"))
           => /\ Len(built.name) >= Len(built.prefix)
              /\ SubSeq(built.name, 1, Len(built.prefix)) = built.prefix

\* The slug is cut right after a '-', which is stripped
C16_Witness ==
    /\ built.pc = "built"
    /\ built.maxLen - LeastLen(built.prefix, built.hash) + 1 \in 2..(Len(built.slug) - 1)
    /\ built.slug[built.maxLen - LeastLen(built.prefix, built.hash) + 1] = "-"
    /\ Len(built.name) < built.maxLen

\* The flags of a command line, and the command it names
HasFlag(argv, key) == \E i \in DOMAIN argv : IsFlag(argv[i]) /\ argv[i].flag = key
CommandOf(argv) == IF Len(argv) > 0 /\ "cmd" \in DOMAIN argv[1] THEN argv[1].cmd ELSE "none"

\* A required flag of the command is not on the command line
RequiredFlags(cmd) ==
    CASE cmd = "ensure-dns-a" -> {"zone-id"}
      [] cmd = "ensure-worker-routes" -> {"zone-id", "worker-name", "route"}
      [] OTHER -> {}
MissingRequiredFlag(argv) == \E key \in RequiredFlags(CommandOf(argv)) : ~HasFlag(argv, key)

\* The run had a credential, so that it got as far as its command
HadCredential == GetToken(ParseArgs(cli.argv), cli.env) # <<>>

\* C17: a run that succeeds exits with code 0; a run with no subcommand, or
\* with a credential and a required flag (--zone-id, --worker-name, --route)
\* missing, exits with code 2; a run whose operation fails (validation,
\* conflict, remote error) exits with a code that is neither 0 nor 2.
C17_ExitCodes ==
    cli.pc = "exit" =>
        /\ (cli.op # "none" /\ CliOutcome \in {"ok"} \cup DnsSuccess) => cli.code = 0
        /\ CommandOf(cli.argv) = "none" => cli.code = 2
        /\ (HadCredential /\ MissingRequiredFlag(cli.argv)) => cli.code = 2
        /\ (cli.op # "none" /\ CliOutcome \notin {"ok"} \cup DnsSuccess) => cli.code \notin {0, 2}

\* What the code does: code 2 only for no subcommand and for an unknown one,
\* code 1 for every error thrown, a missing required flag included
C17_CodeTwoOnlyForCommand ==
    cli.pc = "exit" =>
        /\ cli.code = 2 <=> (CommandOf(cli.argv) \notin {"resolve-zone", "ensure-dns-a",
                                                         "ensure-worker-routes"}
                             /\ (CommandOf(cli.argv) = "none" \/ HadCredential))
        /\ (HadCredential /\ MissingRequiredFlag(cli.argv)) => cli.code = 1
        /\ cli.code = 0 <=> (cli.op # "none" /\ CliOutcome \in {"ok"} \cup DnsSuccess)

\* ensure-worker-routes with a token and no --zone-id ends with code 1
C17_MissingFlagWitness ==
    /\ cli.pc = "exit"
    /\ CommandOf(cli.argv) = "ensure-worker-routes"
    /\ HadCredential
    /\ ~HasFlag(cli.argv, "zone-id")
    /\ cli.code = 1
    /\ cli.error = "--zone-id is required"

\* The positions of the --route flags that are followed by a pattern, and
\* the patterns the caller supplied with them
RouteFlagAt(argv) ==
    {i \in DOMAIN argv : /\ IsFlag(argv[i]) /\ argv[i].flag = "route"
                         /\ i < Len(argv) /\ ~IsFlag(argv[i + 1])}
SuppliedPatterns(argv) == {Trim(argv[i + 1].word) : i \in RouteFlagAt(argv)}
PassedPatterns == {rtCall.args.patterns[i] : i \in DOMAIN rtCall.args.patterns}
SeveralRouteFlags ==
    /\ cli.op = "ensure-worker-routes"
    /\ cli.pc \in {"call", "exit"}
    /\ Cardinality(RouteFlagAt(cli.argv)) >= 2

\* C18: when ensure-worker-routes is run with several --route <pattern>
\* flags, every pattern supplied is passed to ensureWorkerRoutes, a run that
\* succeeds leaves every supplied pattern routed to the worker, and the count
\* it prints is the number of --route flags given.
C18_EveryRoute ==
    SeveralRouteFlags =>
        /\ SuppliedPatterns(cli.argv) \subseteq PassedPatterns
        /\ (cli.pc = "exit" /\ cli.code = 0) =>
               /\ cli.count = Cardinality(RouteFlagAt(cli.argv))
               /\ \A p \in SuppliedPatterns(cli.argv) :
                      \E r \in routes : r.pattern = p /\ r.script = rtCall.args.workerName

\* What the code does: of several --route flags the last one alone is
\* passed, and the count printed is the number of patterns passed
C18_LastRouteOnly ==
    (cli.op = "ensure-worker-routes" /\ cli.pc \in {"call", "exit"}) =>
        /\ RouteFlagAt(cli.argv) # {} =>
               rtCall.args.patterns
                   = NonEmpty(TrimAll(Split(
                         cli.argv[1 + CHOOSE i \in RouteFlagAt(cli.argv) :
                                      \A j \in RouteFlagAt(cli.argv) : j <= i].word,
                         ",")))
        /\ (cli.pc = "exit" /\ cli.code = 0) => cli.count = Len(rtCall.args.patterns)

\* Two --route flags, a successful run, a count of one and the first
\* pattern not routed
C18_DroppedWitness ==
    /\ SeveralRouteFlags
    /\ cli.pc = "exit"
    /\ cli.code = 0
    /\ cli.count = 1
    /\ rtCall.args.patterns = <<PatB>>
    /\ ~\E r \in routes : r.pattern = PatA

\* The other caller of ensureDnsA
Q == dnsCall["q"]

\* The records of the zone for the one name the two callers ask for
ForTheName(records) == RecordsFor(records, NameAB)

\* C19: two invocations of ensureDnsA for one name that start from no record
\* and both read before either writes can both report created, and then the
\* zone holds two records for the name; nothing removes a record, so the two
\* stay; and an invocation that starts when the zone holds two records for
\* the name and whose lookup is answered fails with AmbiguousRecord, with or
\* without force, and writes nothing.
C19_RaceAmbiguous ==
    /\ (/\ P.pc = "done" /\ P.out.kind = "created"
        /\ Q.pc = "done" /\ Q.out.kind = "created")
       => Cardinality(ForTheName(dnsRecords)) = 2
    /\ Cardinality(dnsRecords) = dnsNextId - 1
    /\ \A c \in DnsCallers :
           Cardinality(ForTheName(dnsCall[c].pre)) >= 2 =>
               /\ dnsCall[c].posts = 0
               /\ dnsCall[c].puts = 0
               /\ dnsCall[c].pc \in {"get", "done"}
               /\ dnsCall[c].pc = "done" =>
                      /\ dnsCall[c].out.kind \in {"AmbiguousRecord", "ApiError"}
                      /\ dnsCall[c].out.kind = "ApiError" => Len(dnsCall[c].existing) = 0

\* Both callers have reported created, the zone holds two records for the
\* name, and a later call with force has ended with AmbiguousRecord
C19_Witness ==
    /\ Cardinality(ForTheName(dnsRecords)) = 2
    /\ \E r1 \in dnsRecords, r2 \in dnsRecords : r1.id = 1 /\ r2.id = 2 /\ r1.name = r2.name
    /\ Cardinality(ForTheName(P.pre)) = 2
    /\ P.pc = "done"
    /\ P.args.force
    /\ P.out.kind = "AmbiguousRecord"
    /\ Q.pc = "done"
    /\ Q.out.kind = "created"
    /\ Q.pre = {}

\* C20: from a zone with at most one record for a name, whatever invocations
\* of ensureDnsA follow one another (any arguments, any force, returned or
\* failed), the zone keeps at most one record for a name, no record is ever
\* deleted (the ids handed out are all still there), and an invocation
\* issues one read, then at most one write, never a write before its read.
C20_OneRecordKept ==
    /\ OneRecordPerName(dnsRecords)
    /\ {r.id : r \in dnsRecords} = 1..(dnsNextId - 1)
    /\ \A r \in P.pre : \E s \in dnsRecords : s.id = r.id
    /\ P.gets <= 1
    /\ P.posts + P.puts <= 1
    /\ P.pc = "get" => P.gets = 0 /\ P.posts + P.puts = 0
    /\ P.pc \in {"post", "put"} => P.gets = 1 /\ P.posts + P.puts = 0
    /\ P.pc = "done" => P.gets = 1
    /\ P.posts + P.puts = 1 => P.pc = "done" /\ P.gets = 1

\* A record taken over with force in a zone that holds another name too:
\* one read, one PUT, both records still there
C20_Witness ==
    /\ P.pc = "done"
    /\ P.out.kind = "updated"
    /\ P.gets = 1
    /\ P.puts = 1
    /\ Cardinality(dnsRecords) = 2
    /\ Cardinality(P.pre) = 2
    /\ \E r \in dnsRecords : r.name = NameXB

\* The create requests a call has sent for a pattern, in whatever case the
\* list spells it, and whether the list names the pattern more than once
CreatesFor(pattern) ==
    {w \in R.writes : w[1] = "POST" /\ SameClass(R.args.patterns[w[2]], pattern)}
Repeated(pattern) ==
    Cardinality({k \in DOMAIN R.args.patterns : SameClass(R.args.patterns[k], pattern)}) > 1

\* C21: when the list names a pattern more than once, in the same or in
\* another case, and the zone held no route for it, one call sends at most
\* one create request for the pattern, exactly one when it returns, and
\* leaves no two routes for it.
C21_OneCreate ==
    \A k \in DOMAIN R.args.patterns :
        (Repeated(R.args.patterns[k]) /\ Free(R.pre, R.args.patterns[k])) =>
            /\ Cardinality(CreatesFor(R.args.patterns[k])) <= 1
            /\ (RtDone /\ R.out.kind = "ok") =>
                   Cardinality(CreatesFor(R.args.patterns[k])) = 1
            /\ ~R.touched => Cardinality(Holders(routes, R.args.patterns[k])) <= 1

\* What the code does: the list of routes is read once and never added to,
\* so a call that returns has sent one create request for every place of the
\* list that names a pattern the zone held no route for
C21_OneCreatePerPlace ==
    (RtDone /\ R.out.kind = "ok") =>
        \A k \in DOMAIN R.args.patterns :
            Free(R.pre, R.args.patterns[k]) => <<"POST", k>> \in R.writes

\* A call for a/* and A/* in a zone with no route: two create requests
\* answered, two routes for the one pattern
C21_TwoCreated ==
    /\ RtDone
    /\ R.out.kind = "ok"
    /\ R.mode = "fresh"
    /\ R.pre = {}
    /\ R.args.patterns = <<PatA, PatAu>>
    /\ R.writes = {<<"POST", 1>>, <<"POST", 2>>}
    /\ Cardinality(Holders(routes, PatA)) = 2

=============================================================================
